---- MODULE Spec2Model ----
(***************************************************************************)
(* Mirror-curve: the grid of mirror lines (logic/grid.js), the reflection  *)
(* walk (logic/mirrorCurve.js), the curve finder (logic/curveFinder.js),   *)
(* the animation queue (core/animationManager.js) and the state manager's  *)
(* dispatch (core/stateManager.js).                                        *)
(***************************************************************************)
EXTENDS Integers, Sequences, FiniteSets, TLC

(* ---------- bounds of the model ---------- *)
\* the curve finder is run on every grid of at most MaxCells cells
MaxCells == 6

\* the grid sizes with rows, cols >= 1 and at most n cells
Sizes(n) == {rc \in (1..n) \X (1..n) : rc[1] * rc[2] <= n}

(* ---------- Grid: direction constants (grid.js, static NW..SE) ---------- *)
NW == 0
NE == 1
SW == 2
SE == 3

Dirs == {NW, NE, SW, SE}

\* the array [Grid.NW, Grid.NE, Grid.SW, Grid.SE] of getUnusedDirections
allDirections == <<NW, NE, SW, SE>>

\* JavaScript null where an object or an id is expected
Null == << >>

\* JavaScript null where a direction is expected (exitDirection)
NullDirection == -1

Range(s) == {s[i] : i \in 1..Len(s)}

(* ---------- Grid: ids ---------- *)
\* `${type}_${row}_${col}`: the id is the triple it is formatted from
generateGridLineId(type, row, col) == <<type, row, col>>

parseGridLineId(id) == [type |-> id[1], row |-> id[2], col |-> id[3]]

(* ---------- Grid: construction ---------- *)
\* The keys of this.gridLines in Map insertion order: horizontal lines
\* row-major (row 0..rows, col 0..cols-1), then vertical lines row-major
\* (row 0..rows-1, col 0..cols).
gridLineOrder(rows, cols) ==
  [i \in 1..(IF rows >= 0 /\ cols > 0 THEN (rows + 1) * cols ELSE 0) |->
      generateGridLineId("h", (i - 1) \div cols, (i - 1) % cols)]
  \o
  [i \in 1..(IF rows > 0 /\ cols >= 0 THEN rows * (cols + 1) ELSE 0) |->
      generateGridLineId("v", (i - 1) \div (cols + 1), (i - 1) % (cols + 1))]

initializeGridLines(rows, cols) ==
  LET order == gridLineOrder(rows, cols)
  IN [rows |-> rows,
      cols |-> cols,
      order |-> order,
      gridLines |->
        [id \in Range(order) |->
           [id |-> id,
            type |-> IF id[1] = "h" THEN "horizontal" ELSE "vertical",
            row |-> id[2],
            col |-> id[3],
            isMirror |-> FALSE,
            connections |-> [d \in Dirs |-> Null]]],
      usedDirections |-> [id \in {} |-> {}]]

\* the connection computed without asking whether the cell is in the grid
connectionOfAnyCell(g, line, d) ==
  LET row == line.row
      col == line.col
  IN IF line.type = "horizontal"
     THEN CASE d = NW -> generateGridLineId("v", row - 1, col)
            [] d = NE -> generateGridLineId("v", row - 1, col + 1)
            [] d = SW -> generateGridLineId("v", row, col)
            [] d = SE -> generateGridLineId("v", row, col + 1)
     ELSE CASE d = NW -> generateGridLineId("h", row, col - 1)
            [] d = NE -> generateGridLineId("h", row, col)
            [] d = SW -> generateGridLineId("h", row + 1, col - 1)
            [] d = SE -> generateGridLineId("h", row + 1, col)

\* the connection with the north-east neighbour of a horizontal line taken
\* one column to the left
connectionOfShifted(g, line, d) ==
  LET row == line.row
      col == line.col
  IN IF line.type = "horizontal"
     THEN CASE d = NW -> IF col >= 0 /\ row > 0
                         THEN generateGridLineId("v", row - 1, col) ELSE Null
            [] d = NE -> IF row > 0
                         THEN generateGridLineId("v", row - 1, col) ELSE Null
            [] d = SW -> IF col >= 0 /\ row < g.rows
                         THEN generateGridLineId("v", row, col) ELSE Null
            [] d = SE -> IF row < g.rows
                         THEN generateGridLineId("v", row, col + 1) ELSE Null
     ELSE CASE d = NW -> IF row >= 0 /\ col > 0
                         THEN generateGridLineId("h", row, col - 1) ELSE Null
            [] d = NE -> IF row >= 0 /\ col < g.cols
                         THEN generateGridLineId("h", row, col) ELSE Null
            [] d = SW -> IF row < g.rows /\ col > 0
                         THEN generateGridLineId("h", row + 1, col - 1) ELSE Null
            [] d = SE -> IF row < g.rows /\ col < g.cols
                         THEN generateGridLineId("h", row + 1, col) ELSE Null

\* the connection of one grid line in one direction, as computeConnections
\* stores it (the validation pass of the source is commented out)
connectionOf(g, line, d) ==
  LET row == line.row
      col == line.col
  IN IF line.type = "horizontal"
     THEN CASE d = NW -> IF col >= 0 /\ row > 0
                         THEN generateGridLineId("v", row - 1, col) ELSE Null
            [] d = NE -> IF row > 0
                         THEN generateGridLineId("v", row - 1, col + 1) ELSE Null
            [] d = SW -> IF col >= 0 /\ row < g.rows
                         THEN generateGridLineId("v", row, col) ELSE Null
            [] d = SE -> IF row < g.rows
                         THEN generateGridLineId("v", row, col + 1) ELSE Null
     ELSE CASE d = NW -> IF row >= 0 /\ col > 0
                         THEN generateGridLineId("h", row, col - 1) ELSE Null
            [] d = NE -> IF row >= 0 /\ col < g.cols
                         THEN generateGridLineId("h", row, col) ELSE Null
            [] d = SW -> IF row < g.rows /\ col > 0
                         THEN generateGridLineId("h", row + 1, col - 1) ELSE Null
            [] d = SE -> IF row < g.rows /\ col < g.cols
                         THEN generateGridLineId("h", row + 1, col) ELSE Null

computeConnections(g) ==
  [g EXCEPT !.gridLines =
     [id \in DOMAIN g.gridLines |->
        [g.gridLines[id] EXCEPT
           !.connections = [d \in Dirs |-> connectionOf(g, g.gridLines[id], d)]]]]

\* getGridLine looking among the horizontal lines only
getGridLineHorizontal(g, id) ==
  IF id \in DOMAIN g.gridLines /\ id[1] = "h" THEN g.gridLines[id] ELSE Null

getGridLine(g, id) ==
  IF id \in DOMAIN g.gridLines THEN g.gridLines[id] ELSE Null

isBoundaryGridLineNever(g, gridLine) == FALSE

isBoundaryGridLine(g, gridLine) ==
  IF gridLine = Null THEN FALSE
  ELSE IF gridLine.type = "horizontal"
       THEN gridLine.row = 0 \/ gridLine.row = g.rows
       ELSE gridLine.col = 0 \/ gridLine.col = g.cols

\* setMirror cutting the connections of the line it changes
setMirrorDetaching(g, lineId, isMirror) ==
  IF getGridLine(g, lineId) = Null THEN g
  ELSE [g EXCEPT !.gridLines[lineId].isMirror = isMirror,
                 !.gridLines[lineId].connections = [d \in Dirs |-> Null]]

setMirror(g, lineId, isMirror) ==
  IF getGridLine(g, lineId) # Null
  THEN [g EXCEPT !.gridLines[lineId].isMirror = isMirror]
  ELSE g

\* the four loops of placeBoundaryMirrors: setMirror(id, true) on h_0_c,
\* h_rows_c, v_r_0 and v_r_cols
boundaryIds(g) ==
  {generateGridLineId("h", 0, c) : c \in 0..(g.cols - 1)}
  \cup {generateGridLineId("h", g.rows, c) : c \in 0..(g.cols - 1)}
  \cup {generateGridLineId("v", r, 0) : r \in 0..(g.rows - 1)}
  \cup {generateGridLineId("v", r, g.cols) : r \in 0..(g.rows - 1)}

\* placeBoundaryMirrors with its first two loops only (top and bottom)
placeBoundaryMirrorsTopAndBottom(g) ==
  [g EXCEPT !.gridLines =
     [id \in DOMAIN g.gridLines |->
        IF id \in boundaryIds(g) /\ id[1] = "h"
        THEN [g.gridLines[id] EXCEPT !.isMirror = TRUE]
        ELSE g.gridLines[id]]]

\* placeBoundaryMirrors with its last two loops only (left and right)
placeBoundaryMirrorsLeftAndRight(g) ==
  [g EXCEPT !.gridLines =
     [id \in DOMAIN g.gridLines |->
        IF id \in boundaryIds(g) /\ id[1] = "v"
        THEN [g.gridLines[id] EXCEPT !.isMirror = TRUE]
        ELSE g.gridLines[id]]]

placeBoundaryMirrors(g) ==
  [g EXCEPT !.gridLines =
     [id \in DOMAIN g.gridLines |->
        IF id \in boundaryIds(g)
        THEN [g.gridLines[id] EXCEPT !.isMirror = TRUE]
        ELSE g.gridLines[id]]]

seededDirectionsInward(g, gridLine) ==
  IF ~isBoundaryGridLine(g, gridLine) THEN {}
  ELSE IF gridLine.type = "horizontal"
       THEN IF gridLine.row = 0 THEN {SW, SE}
            ELSE IF gridLine.row = g.rows THEN {NW, NE} ELSE {}
       ELSE IF gridLine.col = 0 THEN {NE, SE}
            ELSE IF gridLine.col = g.cols THEN {SW, NW} ELSE {}

\* the directions initializeUsedDirections adds for one grid line
seededDirections(g, gridLine) ==
  IF ~isBoundaryGridLine(g, gridLine) THEN {}
  ELSE IF gridLine.type = "horizontal"
       THEN IF gridLine.row = 0 THEN {NW, NE}
            ELSE IF gridLine.row = g.rows THEN {SW, SE} ELSE {}
       ELSE IF gridLine.col = 0 THEN {SW, NW}
            ELSE IF gridLine.col = g.cols THEN {NE, SE} ELSE {}

\* initializeUsedDirections adding the seeds to the sets it finds
initializeUsedDirectionsKeeping(g) ==
  [g EXCEPT !.usedDirections =
     [id \in DOMAIN g.gridLines |->
        seededDirections(g, g.gridLines[id])
          \cup (IF id \in DOMAIN g.usedDirections
                THEN g.usedDirections[id] ELSE {})]]

initializeUsedDirections(g) ==
  [g EXCEPT !.usedDirections =
     [id \in DOMAIN g.gridLines |-> seededDirections(g, g.gridLines[id])]]

keepUsedDirections(g) == g

resetUsedDirections(g) == initializeUsedDirections(g)

\* new Grid(rows, cols)
Grid(rows, cols) ==
  initializeUsedDirections(
    placeBoundaryMirrors(
      computeConnections(
        initializeGridLines(rows, cols))))

(* ---------- Grid: navigation, reflection, used directions ---------- *)
\* getAdjacentGridLine: thrown = TRUE stands for the Error "Curve left the
\* grid"; otherwise value is what the method returns
getAdjacentGridLine(g, lineId, direction) ==
  LET gridLine == getGridLine(g, lineId)
  IN IF gridLine = Null THEN [thrown |-> FALSE, value |-> Null]
     ELSE IF direction \notin Dirs THEN [thrown |-> FALSE, value |-> Null]
     ELSE IF gridLine.connections[direction] = Null
          THEN [thrown |-> TRUE, value |-> Null]
          ELSE [thrown |-> FALSE, value |-> gridLine.connections[direction]]

\* getReflectedDirection reflecting at every mirror as at a horizontal one
getReflectedDirectionAsHorizontal(g, gridLineId, incomingDirection) ==
  LET gridLine == getGridLine(g, gridLineId)
  IN IF gridLine = Null THEN incomingDirection
     ELSE IF ~gridLine.isMirror THEN incomingDirection
     ELSE CASE incomingDirection = NW -> SW
            [] incomingDirection = NE -> SE
            [] incomingDirection = SW -> NW
            [] incomingDirection = SE -> NE
            [] OTHER -> incomingDirection

\* getReflectedDirection reflecting at boundary lines only
getReflectedDirectionAtBoundary(g, gridLineId, incomingDirection) ==
  LET gridLine == getGridLine(g, gridLineId)
  IN IF gridLine = Null THEN incomingDirection
     ELSE IF ~gridLine.isMirror \/ ~isBoundaryGridLine(g, gridLine)
          THEN incomingDirection
     ELSE IF gridLine.type = "horizontal"
          THEN (incomingDirection + 2) % 4
          ELSE incomingDirection + 1 - 2 * (incomingDirection % 2)

getReflectedDirection(g, gridLineId, incomingDirection) ==
  LET gridLine == getGridLine(g, gridLineId)
  IN IF gridLine = Null THEN incomingDirection
     ELSE IF ~gridLine.isMirror THEN incomingDirection
     ELSE IF gridLine.type = "horizontal"
          THEN CASE incomingDirection = NW -> SW
                 [] incomingDirection = NE -> SE
                 [] incomingDirection = SW -> NW
                 [] incomingDirection = SE -> NE
                 [] OTHER -> incomingDirection
          ELSE CASE incomingDirection = NW -> NE
                 [] incomingDirection = NE -> NW
                 [] incomingDirection = SW -> SE
                 [] incomingDirection = SE -> SW
                 [] OTHER -> incomingDirection

markDirectionUsed(g, gridLineId, direction) ==
  IF gridLineId \in DOMAIN g.usedDirections
  THEN [g EXCEPT !.usedDirections[gridLineId] = @ \cup {direction}]
  ELSE g

isDirectionUsed(g, gridLineId, direction) ==
  IF gridLineId \notin DOMAIN g.usedDirections THEN FALSE
  ELSE direction \in g.usedDirections[gridLineId]

\* getUnusedDirections listing the directions from SE down to NW
getUnusedDirectionsDescending(g, gridLineId) ==
  IF getGridLine(g, gridLineId) = Null \/ gridLineId \notin DOMAIN g.usedDirections
  THEN << >>
  ELSE SelectSeq(<<SE, SW, NE, NW>>,
                 LAMBDA dir : dir \notin g.usedDirections[gridLineId])

getUnusedDirections(g, gridLineId) ==
  IF getGridLine(g, gridLineId) = Null \/ gridLineId \notin DOMAIN g.usedDirections
  THEN << >>
  ELSE SelectSeq(allDirections,
                 LAMBDA dir : dir \notin g.usedDirections[gridLineId])

isEdgeDirection(g, gridLineId, direction) ==
  LET gridLine == getGridLine(g, gridLineId)
  IN IF gridLine = Null THEN TRUE
     ELSE IF direction \notin Dirs THEN TRUE
     ELSE gridLine.connections[direction] = Null

\* the grid lines randomizeMirrors may flip: it skips the ids it parses as
\* boundary ids
randomizable(g) ==
  {id \in DOMAIN g.gridLines :
     LET p == parseGridLineId(id)
     IN ~((p.type = "h" /\ (p.row = 0 \/ p.row = g.rows))
          \/ (p.type = "v" /\ (p.col = 0 \/ p.col = g.cols)))}

\* randomizeMirrors(p) with 0 < p < 1: flipped is the set of lines for
\* which Math.random() < p came out true
randomizeMirrors(g, flipped) ==
  [g EXCEPT !.gridLines =
     [id \in DOMAIN g.gridLines |->
        IF id \in randomizable(g) /\ id \in flipped
        THEN [g.gridLines[id] EXCEPT !.isMirror = ~g.gridLines[id].isMirror]
        ELSE g.gridLines[id]]]

(* ---------- MirrorCurve ---------- *)
MAX_SEGMENTS == 1000000

\* new MirrorCurve(startGridLine, initialDirection); grid lines are held
\* by id
MirrorCurve(startGridLine, initialDirection) ==
  [gridLines |-> <<startGridLine>>,
   directions |-> <<initialDirection>>,
   isClosed |-> FALSE,
   leftGrid |-> FALSE,
   exitPoint |-> Null,
   exitDirection |-> NullDirection]

addSegment(curve, nextGridLine, nextDirection) ==
  [curve EXCEPT !.gridLines = Append(@, nextGridLine),
                !.directions = Append(@, nextDirection)]

\* the ternary chain of buildCurve that yields oppositeDirection
oppositeOf(currentDirection) ==
  IF currentDirection = NW THEN SE
  ELSE IF currentDirection = SE THEN NW
  ELSE IF currentDirection = NE THEN SW
  ELSE NE

secondMarkOfOutgoing(currentDirection, nextDirection) == oppositeOf(nextDirection)

\* the second markDirectionUsed of a loop iteration: which direction of
\* nextLineId it marks, given the direction the walk came in with and the
\* direction it leaves with
secondMark(currentDirection, nextDirection) == oppositeOf(currentDirection)

\* buildCurve before its loop: the initial direction is marked used.
\* ret is "running" inside the loop, then "true" or "false" (the return
\* value); marked records the (line, direction) pairs this call has passed
\* to markDirectionUsed.
buildCurveEnter(g, curve) ==
  [grid |-> markDirectionUsed(g, curve.gridLines[1], curve.directions[1]),
   curve |-> curve,
   currentGridLine |-> curve.gridLines[1],
   currentDirection |-> curve.directions[1],
   ret |-> "running",
   marked |-> {<<curve.gridLines[1], curve.directions[1]>>}]

\* the loop-closing test comparing the grid line only
closesLoopAtStartLine(curve, nextLineId, nextDirection) ==
  /\ Len(curve.gridLines) > 2
  /\ nextLineId = curve.gridLines[1]

\* the loop-closing test of buildCurve, after the segment was added
closesLoop(curve, nextLineId, nextDirection) ==
  /\ Len(curve.gridLines) > 2
  /\ nextLineId = curve.gridLines[1]
  /\ nextDirection = curve.directions[1]

\* the catch block of buildCurve for the Error "Curve left the grid"
leftTheGridNoExit(b) ==
  [b EXCEPT !.curve.leftGrid = TRUE,
            !.ret = "true"]

leftTheGrid(b) ==
  [b EXCEPT !.curve.leftGrid = TRUE,
            !.curve.exitPoint = b.currentGridLine,
            !.curve.exitDirection = b.currentDirection,
            !.ret = "true"]

\* one iteration of the while loop of buildCurve (its condition included)
buildCurveIteration(b) ==
  IF ~(Len(b.curve.gridLines) < MAX_SEGMENTS)
  THEN [b EXCEPT !.ret = "false"]
  ELSE
    LET adj == getAdjacentGridLine(b.grid, b.currentGridLine, b.currentDirection)
    IN IF adj.thrown
       THEN leftTheGrid(b)
       ELSE
         LET nextLineId == adj.value
             nextGridLine == getGridLine(b.grid, nextLineId)
         IN IF nextGridLine = Null
            THEN [b EXCEPT !.ret = "false"]
            ELSE
              LET nextDirection ==
                    IF nextGridLine.isMirror
                    THEN getReflectedDirection(b.grid, nextLineId, b.currentDirection)
                    ELSE b.currentDirection
                  oppositeDirection == secondMark(b.currentDirection, nextDirection)
                  curve1 == addSegment(b.curve, nextLineId, nextDirection)
                  grid1 == markDirectionUsed(
                             markDirectionUsed(b.grid, nextLineId, nextDirection),
                             nextLineId, oppositeDirection)
                  marked1 == b.marked \cup {<<nextLineId, nextDirection>>,
                                            <<nextLineId, oppositeDirection>>}
              IN IF closesLoop(curve1, nextLineId, nextDirection)
                 THEN [b EXCEPT !.grid = grid1,
                                !.curve = [curve1 EXCEPT !.isClosed = TRUE],
                                !.marked = marked1,
                                !.ret = "true"]
                 ELSE [b EXCEPT !.grid = grid1,
                                !.curve = curve1,
                                !.marked = marked1,
                                !.currentGridLine = nextLineId,
                                !.currentDirection = nextDirection]

RECURSIVE buildCurveLoop(_)
buildCurveLoop(b) ==
  IF b.ret # "running" THEN b ELSE buildCurveLoop(buildCurveIteration(b))

\* curve.buildCurve(grid), start to return
buildCurve(g, curve) == buildCurveLoop(buildCurveEnter(g, curve))

(* ---------- curve finder ---------- *)
RECURSIVE nextStart(_, _)
\* the for loop taking only lines no curve has touched
nextStartUntouched(g, pos) ==
  IF pos > Len(g.order) THEN 0
  ELSE IF Len(getUnusedDirections(g, g.order[pos])) > 2 THEN pos
  ELSE nextStart(g, pos + 1)

\* the for loop of findNextCurve from position pos of the entries: the
\* first position at or after pos whose line has an unused direction, or 0
nextStart(g, pos) ==
  IF pos > Len(g.order) THEN 0
  ELSE IF Len(getUnusedDirections(g, g.order[pos])) > 0 THEN pos
  ELSE nextStart(g, pos + 1)

\* findNextCurve with its for loop at position pos: grid is the grid as the
\* call leaves it, curve the returned curve or Null
RECURSIVE findNextCurveFrom(_, _)
findNextCurveFrom(g, pos) ==
  LET at == nextStart(g, pos)
  IN IF at = 0 THEN [grid |-> g, curve |-> Null]
     ELSE LET id == g.order[at]
              direction == getUnusedDirections(g, id)[1]
              b == buildCurve(g, MirrorCurve(id, direction))
          IN IF b.ret = "true" THEN [grid |-> b.grid, curve |-> b.curve]
             ELSE findNextCurveFrom(b.grid, at + 1)

findNextCurve(g) == findNextCurveFrom(g, 1)

\* the while loop of findAllCurves
RECURSIVE findAllCurvesLoop(_, _)
findAllCurvesLoop(g, found) ==
  LET r == findNextCurve(g)
  IN IF r.curve = Null THEN [grid |-> r.grid, curves |-> found]
     ELSE findAllCurvesLoop(r.grid, Append(found, r.curve))

\* findAllCurves without its first statement (grid.resetUsedDirections())
findAllCurvesFromHere(g) == findAllCurvesLoop(g, << >>)

findAllCurves(g) == findAllCurvesLoop(resetUsedDirections(g), << >>)

(* ---------- animation manager (core/animationManager.js) ---------- *)
\* Lengths are counted in path segments and times in ticks of a clock, so
\* a speed is a number of segments per tick: every connection of the grid
\* joins the midpoints of two adjacent lines of one cell, so all segments
\* between consecutive points of a curve are equally long. The cell size
\* (state.gridLayout.cellSize, set by the screen drawer on every REDRAW)
\* and the spline through the points do not enter the model.
MaxSpeed == 2

Speeds == 1..MaxSpeed

\* completeCallback = null
NoCallback == "null"

\* state.settings.animationStyle as the state manager initialises it
animationStyle == "curved"

\* the module-level variables as the module loads them and initialize()
\* sets the speed; animationFrame is "null", "pending" (the handle of a
\* callback the browser will still call) or "spent" (the handle of a
\* callback that was called or cancelled)
AnimationManager(speed) ==
  [queue |-> << >>,
   completeCallback |-> NoCallback,
   isAnimating |-> FALSE,
   animationFrame |-> "null",
   currentCurve |-> Null,
   animationStartTime |-> 0,
   animationSpeed |-> speed,
   currentPathLength |-> 0]

enqueueCurveFront(am, curve) == [am EXCEPT !.queue = <<curve>> \o @]

enqueueCurve(am, curve) == [am EXCEPT !.queue = Append(@, curve)]

\* the points of a curve, each held by the id of the grid line it lies on;
\* [] for an object without gridLines
calculatePathPoints(curve) ==
  IF "gridLines" \in DOMAIN curve THEN curve.gridLines ELSE << >>

\* currentCurve && currentCurve.isClosed
isClosedCurve(curve) ==
  IF "isClosed" \in DOMAIN curve THEN curve.isClosed ELSE FALSE

\* the segment a closed curve adds from its last point to its first: none
\* when the two are the same point (every closed curve buildCurve returns)
closingLength(points, isClosed) ==
  IF isClosed /\ Len(points) > 1 /\ points[Len(points)] # points[1]
  THEN 1 ELSE 0

calculatePathLength(points, currentCurve) ==
  IF Len(points) < 2 THEN 0
  ELSE (Len(points) - 1) + closingLength(points, isClosedCurve(currentCurve))

\* the loop of getPointAtDistance over segments of length 1: indices are
\* the source's (from 0), point is the id of the line the point lies on
getPointAtDistance(points, targetDistance, isClosed) ==
  IF Len(points) < 2 \/ targetDistance <= 0
  THEN [point |-> IF Len(points) = 0 THEN Null ELSE points[1],
        segmentIndex |-> 0]
  ELSE IF targetDistance <= Len(points) - 1
  THEN [point |-> points[targetDistance + 1],
        segmentIndex |-> targetDistance - 1]
  ELSE IF /\ isClosed
          /\ closingLength(points, isClosed) > 0
          /\ (Len(points) - 1) + closingLength(points, isClosed) >= targetDistance
  THEN [point |-> points[1], segmentIndex |-> Len(points) - 1]
  ELSE [point |-> IF isClosed THEN points[1] ELSE points[Len(points)],
        segmentIndex |-> Len(points) - 1]

\* progress with every division by a zero duration yielding NaN
progressOfNaN(elapsed, speed, pathLength) ==
  IF pathLength = 0
  THEN [num |-> 0, den |-> 0]
  ELSE IF elapsed * speed >= pathLength
       THEN [num |-> 1, den |-> 1]
       ELSE [num |-> elapsed * speed, den |-> pathLength]

\* Math.min(elapsed / calculatedDuration, 1) with calculatedDuration =
\* currentPathLength / animationSpeed, as the fraction num/den: 0/0 is NaN
\* (elapsed 0 over duration 0), a positive elapsed over duration 0 is
\* Infinity and gives 1
progressOf(elapsed, speed, pathLength) ==
  IF pathLength = 0
  THEN IF elapsed = 0 THEN [num |-> 0, den |-> 0] ELSE [num |-> 1, den |-> 1]
  ELSE IF elapsed * speed >= pathLength
       THEN [num |-> 1, den |-> 1]
       ELSE [num |-> elapsed * speed, den |-> pathLength]

\* progress >= 1 (false for NaN)
isComplete(progress) == progress.den > 0 /\ progress.num >= progress.den

\* animatePath: the events it emits. The partial curve carries the
\* enqueue number of the curve it is drawn from (field of), which the
\* source's object leaves implicit.
animatePath(am, progress) ==
  LET pathPoints == calculatePathPoints(am.currentCurve)
      totalLength == calculatePathLength(pathPoints, am.currentCurve)
      currentDistance == (progress.num * totalLength) \div progress.den
      at == getPointAtDistance(pathPoints, currentDistance,
                               isClosedCurve(am.currentCurve))
  IN IF am.currentCurve = Null THEN << >>
     ELSE IF Len(pathPoints) < 2 THEN << >>
     ELSE IF totalLength <= 0 THEN << >>
     ELSE <<[name |-> "updateAnimationPath",
             payload |->
               [type |-> "animationPath",
                points |-> SubSeq(pathPoints, 1, at.segmentIndex + 1)
                             \o <<at.point>>,
                isClosed |-> FALSE,
                style |-> animationStyle,
                of |-> am.currentCurve.seq]]>>

generateCompletedCurve(curve, style) ==
  IF style = "curved"
  THEN [isCompleted |-> TRUE, curvedStyle |-> TRUE,
        points |-> calculatePathPoints(curve)] @@ curve
  ELSE [isCompleted |-> TRUE] @@ curve

\* animationStep after a curve has completed, with the callback called
\* after every curve
nextInQueueCallingBackEach(am) ==
  IF Len(am.queue) > 0
  THEN [anim |-> [am EXCEPT !.currentCurve = Head(am.queue),
                            !.queue = Tail(am.queue),
                            !.animationStartTime = 0,
                            !.currentPathLength = 0,
                            !.animationFrame = "pending"],
        called |-> am.completeCallback # NoCallback]
  ELSE [anim |-> [am EXCEPT !.isAnimating = FALSE],
        called |-> am.completeCallback # NoCallback]

\* animationStep after a curve has completed: the next curve of the queue
\* starts, or playback ends and the complete callback is called
nextInQueue(am) ==
  IF Len(am.queue) > 0
  THEN [anim |-> [am EXCEPT !.currentCurve = Head(am.queue),
                            !.queue = Tail(am.queue),
                            !.animationStartTime = 0,
                            !.currentPathLength = 0,
                            !.animationFrame = "pending"],
        called |-> FALSE]
  ELSE [anim |-> [am EXCEPT !.isAnimating = FALSE],
        called |-> am.completeCallback # NoCallback]

\* animationStep(timestamp), called by the browser for the pending frame
\* (am.animationFrame is "spent" by then): the module state it leaves, the
\* events it emits and whether it calls completeCallback
animationStep(am, timestamp) ==
  IF ~am.isAnimating \/ am.currentCurve = Null
  THEN [anim |-> [am EXCEPT !.isAnimating = FALSE],
        events |-> << >>, called |-> FALSE]
  ELSE LET started ==
             IF am.animationStartTime = 0
             THEN [am EXCEPT
                     !.animationStartTime = timestamp,
                     !.currentPathLength =
                        calculatePathLength(calculatePathPoints(am.currentCurve),
                                            am.currentCurve)]
             ELSE am
           elapsed == timestamp - started.animationStartTime
           progress == progressOf(elapsed, started.animationSpeed,
                                  started.currentPathLength)
           path == animatePath(started, progress)
       IN IF isComplete(progress)
          THEN LET next == nextInQueue(started)
               IN [anim |-> next.anim,
                   events |->
                     path \o
                     <<[name |-> "addCompletedCurve",
                        payload |-> generateCompletedCurve(started.currentCurve,
                                                           animationStyle)],
                       [name |-> "clearAnimationPath"]>>,
                   called |-> next.called]
          ELSE [anim |-> [started EXCEPT !.animationFrame = "pending"],
                events |-> path, called |-> FALSE]

startAnimation(am) ==
  IF am.isAnimating \/ Len(am.queue) = 0
  THEN [anim |-> am, events |-> << >>]
  ELSE [anim |-> [am EXCEPT !.isAnimating = TRUE,
                            !.currentCurve = Head(am.queue),
                            !.queue = Tail(am.queue),
                            !.animationStartTime = 0,
                            !.currentPathLength = 0,
                            !.animationFrame = "pending"],
        events |-> <<[name |-> "clearAnimationPath"]>>]

onComplete(am, cb) == [am EXCEPT !.completeCallback = cb]

setAnimationSpeed(am, speed) == [am EXCEPT !.animationSpeed = speed]

\* cancelAnimationFrame(animationFrame) under if (animationFrame)
cancelFrame(animationFrame) ==
  IF animationFrame = "pending" THEN "spent" ELSE animationFrame

\* a clearAllAnimations that stops playback and empties the queue but keeps
\* the in-flight curve and its clock
clearAllAnimationsKeepingCurve(am) ==
  [anim |-> [am EXCEPT !.animationFrame = cancelFrame(@),
                       !.isAnimating = FALSE,
                       !.queue = << >>],
   events |-> <<[name |-> "clearAnimationPath"]>>]

\* clearAllAnimations without its last statement (animationQueue = [])
clearAllAnimationsKeepingQueue(am) ==
  [anim |-> [am EXCEPT !.animationFrame = cancelFrame(@),
                       !.isAnimating = FALSE,
                       !.currentCurve = Null,
                       !.animationStartTime = 0,
                       !.currentPathLength = 0],
   events |-> <<[name |-> "clearAnimationPath"]>>]

clearAllAnimations(am) ==
  [anim |-> [am EXCEPT !.animationFrame = cancelFrame(@),
                       !.isAnimating = FALSE,
                       !.currentCurve = Null,
                       !.animationStartTime = 0,
                       !.currentPathLength = 0,
                       !.queue = << >>],
   events |-> <<[name |-> "clearAnimationPath"]>>]

\* cancelAnimation emptying the queue only
cancelAnimationQueueOnly(am) == [am EXCEPT !.queue = << >>]

\* cancelAnimation(): the frame is cancelled, isAnimating is false, the
\* queue is emptied; currentCurve and the clock stay, nothing is emitted
cancelAnimation(am) ==
  [am EXCEPT !.animationFrame = cancelFrame(@),
             !.isAnimating = FALSE,
             !.queue = << >>]

(* ---------- state manager (core/stateManager.js) ---------- *)
\* state.curves and state.animationPath as the module loads them
\* (state.grid is the variable grid)
StateDefaults == [curves |-> << >>, animationPath |-> Null]

\* the listeners initialize() registers: what one emitted event does to
\* the state
listener(st, event) ==
  CASE event.name = "updateAnimationPath" ->
         [st EXCEPT !.animationPath = event.payload]
    [] event.name = "clearAnimationPath" ->
         [st EXCEPT !.animationPath = Null]
    [] event.name = "addCompletedCurve" ->
         [st EXCEPT !.curves = Append(@, event.payload)]
    [] OTHER -> st

\* each of the three listeners ends with emit('REDRAW')
listened(event) ==
  event.name \in {"updateAnimationPath", "clearAnimationPath", "addCompletedCurve"}

\* emit for each event of a handler in turn: the state the listeners
\* leave and everything that was emitted
RECURSIVE emitAll(_, _)
emitAll(st, events) ==
  IF Len(events) = 0 THEN [state |-> st, emitted |-> << >>]
  ELSE LET rest == emitAll(listener(st, Head(events)), Tail(events))
       IN [state |-> rest.state,
           emitted |-> (IF listened(Head(events))
                        THEN <<Head(events), [name |-> "REDRAW"]>>
                        ELSE <<Head(events)>>) \o rest.emitted]

(* ---------- state ---------- *)
VARIABLES
  grid,      \* the Grid object (state.grid of the state manager)
  pc,        \* where the curve finder stands: "setup", "findNextCurve"
             \* (in its for loop), "buildCurve" (in its while loop), "idle"
  caller,    \* the outermost call in progress or last finished
  scanPos,   \* position of findNextCurve's for loop in grid.gridLines
  build,     \* the locals of buildCurve (its grid is the variable grid)
  curves,    \* the local array curves of findAllCurves
  marks,     \* marks[i]: the pairs curves[i]'s buildCurve marked used
  ret,       \* what the last finished call returned
  anim,      \* the module-level variables of the animation manager
  state,     \* state.curves and state.animationPath of the state manager
  imports,   \* the dynamic imports of dispatch whose then-callback has
             \* not run yet, oldest first
  now,       \* the time of the last animation frame
  last,      \* the handler that ran last: its name and payload, the
             \* events emitted while it ran, the curves it dropped
  enqueued,  \* how many objects were handed to enqueueCurve so far
  completeCalls, \* how often completeCallback was called so far
  dropped    \* the curves clearAllAnimations has dropped so far

finderVars == <<pc, caller, scanPos, build, curves, marks, ret>>

appVars ==
  <<anim, state, imports, now, last, enqueued, completeCalls, dropped>>

vars ==
  <<grid, pc, caller, scanPos, build, curves, marks, ret,
    anim, state, imports, now, last, enqueued, completeCalls, dropped>>

NoHandler ==
  [action |-> "none", payload |-> Null, emitted |-> << >>, dropped |-> {}]

NoBuild ==
  [grid |-> Null, curve |-> Null, currentGridLine |-> Null,
   currentDirection |-> NullDirection, ret |-> "none", marked |-> {}]

\* the locals of a buildCurve call, without the grid it works on
locals(b) == [b EXCEPT !.grid = Null]

interiorIds(g) ==
  {id \in DOMAIN g.gridLines : ~isBoundaryGridLine(g, g.gridLines[id])}

(* ---------- the curve finder on a grid, step by step ---------- *)
TraceInit ==
  /\ \E rc \in Sizes(MaxCells) : grid = Grid(rc[1], rc[2])
  /\ pc = "setup"
  /\ caller = "none"
  /\ scanPos = 0
  /\ build = NoBuild
  /\ curves = << >>
  /\ marks = << >>
  /\ ret = "none"
  /\ anim = AnimationManager(1)
  /\ state = StateDefaults
  /\ imports = << >>
  /\ now = 0
  /\ last = NoHandler
  /\ enqueued = 0
  /\ completeCalls = 0
  /\ dropped = {}

\* grid.setMirror(lineId, !line.isMirror) on an interior line, before any
\* curve is looked for
SetMirror(lineId) ==
  /\ pc = "setup"
  /\ lineId \in interiorIds(grid)
  /\ grid' = setMirror(grid, lineId, ~grid.gridLines[lineId].isMirror)
  /\ UNCHANGED <<pc, caller, scanPos, build, curves, marks, ret>>
  /\ UNCHANGED appVars

\* findAllCurves(grid) is called: used directions are reset, the loop
\* makes its first findNextCurve call
CallFindAllCurves ==
  /\ pc \in {"setup", "idle"}
  /\ grid' = resetUsedDirections(grid)
  /\ pc' = "findNextCurve"
  /\ caller' = "findAllCurves"
  /\ scanPos' = 1
  /\ build' = NoBuild
  /\ curves' = << >>
  /\ marks' = << >>
  /\ ret' = "none"
  /\ UNCHANGED appVars

\* findNextCurve(grid) is called on its own
CallFindNextCurve ==
  /\ pc \in {"setup", "idle"}
  /\ pc' = "findNextCurve"
  /\ caller' = "findNextCurve"
  /\ scanPos' = 1
  /\ build' = NoBuild
  /\ curves' = << >>
  /\ marks' = << >>
  /\ ret' = "none"
  /\ UNCHANGED grid
  /\ UNCHANGED appVars

\* new MirrorCurve(line, direction).buildCurve(grid) on a grid no curve
\* was looked for yet, from any line in any direction
CallBuildCurve(lineId, direction) ==
  /\ pc = "setup"
  /\ lineId \in DOMAIN grid.gridLines
  /\ LET b == buildCurve(grid, MirrorCurve(lineId, direction))
     IN /\ grid' = b.grid
        /\ build' = locals(b)
        /\ ret' = b.ret
  /\ pc' = "returned"
  /\ caller' = "buildCurve"
  /\ UNCHANGED <<scanPos, curves, marks>>
  /\ UNCHANGED appVars

\* findNextCurve's for loop runs from scanPos to the first line with an
\* unused direction and enters buildCurve there, or runs out and returns
\* null (which ends the loop of findAllCurves)
FindNextScan ==
  /\ pc = "findNextCurve"
  /\ LET at == nextStart(grid, scanPos)
     IN IF at = 0
        THEN /\ pc' = "idle"
             /\ ret' = IF caller = "findAllCurves" THEN "curves" ELSE "null"
             /\ UNCHANGED <<grid, caller, scanPos, build, curves, marks>>
        ELSE LET id == grid.order[at]
                 direction == getUnusedDirections(grid, id)[1]
                 b == buildCurveEnter(grid, MirrorCurve(id, direction))
             IN /\ grid' = b.grid
                /\ build' = locals(b)
                /\ scanPos' = at
                /\ pc' = "buildCurve"
                /\ UNCHANGED <<caller, curves, marks, ret>>
  /\ UNCHANGED appVars

\* one iteration of buildCurve's loop; on return true findNextCurve
\* returns the curve (findAllCurves pushes it and calls findNextCurve
\* again), on return false findNextCurve's for loop goes on
BuildStep ==
  /\ pc = "buildCurve"
  /\ LET b == buildCurveIteration([build EXCEPT !.grid = grid])
     IN /\ grid' = b.grid
        /\ build' = locals(b)
        /\ CASE b.ret = "running" ->
                  UNCHANGED <<pc, caller, scanPos, curves, marks, ret>>
             [] b.ret = "true" /\ caller = "findAllCurves" ->
                  /\ curves' = Append(curves, b.curve)
                  /\ marks' = Append(marks, b.marked)
                  /\ pc' = "findNextCurve"
                  /\ scanPos' = 1
                  /\ UNCHANGED <<caller, ret>>
             [] b.ret = "true" /\ caller # "findAllCurves" ->
                  /\ pc' = "idle"
                  /\ ret' = "curve"
                  /\ UNCHANGED <<caller, scanPos, curves, marks>>
             [] OTHER ->
                  /\ pc' = "findNextCurve"
                  /\ scanPos' = scanPos + 1
                  /\ UNCHANGED <<caller, curves, marks, ret>>
  /\ UNCHANGED appVars

TraceNext ==
  \/ \E lineId \in DOMAIN grid.gridLines : SetMirror(lineId)
  \/ CallFindAllCurves
  \/ CallFindNextCurve
  \/ \E lineId \in DOMAIN grid.gridLines, direction \in Dirs :
       CallBuildCurve(lineId, direction)
  \/ FindNextScan
  \/ BuildStep

Init == TraceInit

Next == TraceNext

Spec == Init /\ [][Next]_vars

(* ---------- playback and dispatch, handler by handler ---------- *)
\* at most MaxEnqueued curves are ever enqueued
MaxEnqueued == 3

\* frame timestamps run from 1 to MaxTime
MaxTime == 4

\* at most MaxImports dynamic imports are unresolved at a time
MaxImports == 1

\* the state manager is run on the grids of at most MaxAppCells cells
MaxAppCells == 2

\* the n-th object handed to enqueueCurve
Stamp(curve, n) == [seq |-> n] @@ curve

\* the curves clearAllAnimations drops: the queued ones and the one in
\* flight
droppedBy(am) ==
  {am.queue[i].seq : i \in 1..Len(am.queue)}
  \cup (IF am.isAnimating /\ am.currentCurve # Null
        THEN {am.currentCurve.seq} ELSE {})

\* the objects the test page enqueues and the curve of the 1x1 grid
SampleCurves ==
  {[id |-> "A"], [id |-> "B"]} \cup Range(findAllCurves(Grid(1, 1)).curves)

\* the ids TOGGLE_MIRROR is dispatched with: the ids of the lines of the
\* grid and an id that names no line of it
AnyIds(g) == DOMAIN g.gridLines \cup {generateGridLineId("h", g.rows + 1, 0)}

AppInit ==
  /\ \E speed \in Speeds : anim = AnimationManager(speed)
  /\ state = StateDefaults
  /\ imports = << >>
  /\ now = 0
  /\ last = NoHandler
  /\ enqueued = 0
  /\ completeCalls = 0
  /\ dropped = {}

FinderIdle ==
  /\ pc = "setup"
  /\ caller = "none"
  /\ scanPos = 0
  /\ build = NoBuild
  /\ curves = << >>
  /\ marks = << >>
  /\ ret = "none"

\* the test page: the animation manager is driven directly
QueueInit ==
  /\ grid = Grid(1, 1)
  /\ FinderIdle
  /\ AppInit

\* the application: the state manager holds a grid (new Grid(5, 5) in the
\* source, a grid of at most MaxAppCells cells here)
DispatchInit ==
  /\ \E rc \in Sizes(MaxAppCells) : grid = Grid(rc[1], rc[2])
  /\ FinderIdle
  /\ AppInit

\* enqueueCurve(curve)
EnqueueCurve(curve) ==
  /\ enqueued < MaxEnqueued
  /\ anim' = enqueueCurve(anim, Stamp(curve, enqueued + 1))
  /\ enqueued' = enqueued + 1
  /\ last' = [action |-> "enqueueCurve", payload |-> curve,
              emitted |-> << >>, dropped |-> {}]
  /\ UNCHANGED <<grid, state, imports, now, completeCalls, dropped>>
  /\ UNCHANGED finderVars

\* startAnimation()
StartAnimation ==
  /\ LET started == startAnimation(anim)
         heard == emitAll(state, started.events)
     IN /\ anim' = started.anim
        /\ state' = heard.state
        /\ last' = [action |-> "startAnimation", payload |-> Null,
                    emitted |-> heard.emitted, dropped |-> {}]
  /\ UNCHANGED <<grid, imports, now, enqueued, completeCalls, dropped>>
  /\ UNCHANGED finderVars

\* onComplete(cb), as the test page registers its callback
OnComplete ==
  /\ anim.completeCallback = NoCallback
  /\ anim' = onComplete(anim, "cb")
  /\ last' = [action |-> "onComplete", payload |-> Null,
              emitted |-> << >>, dropped |-> {}]
  /\ UNCHANGED <<grid, state, imports, now, enqueued, completeCalls, dropped>>
  /\ UNCHANGED finderVars

\* the browser calls the pending animation frame callback with the time
\* of the frame; frame times increase
Tick(timestamp) ==
  /\ anim.animationFrame = "pending"
  /\ timestamp > now
  /\ LET stepped == animationStep([anim EXCEPT !.animationFrame = "spent"],
                                  timestamp)
         heard == emitAll(state, stepped.events)
     IN /\ anim' = stepped.anim
        /\ state' = heard.state
        /\ completeCalls' = IF stepped.called THEN completeCalls + 1
                            ELSE completeCalls
        /\ last' = [action |-> "animationStep",
                    payload |-> [timestamp |-> timestamp],
                    emitted |-> heard.emitted, dropped |-> {}]
  /\ now' = timestamp
  /\ UNCHANGED <<grid, imports, enqueued, dropped>>
  /\ UNCHANGED finderVars

\* clearAllAnimations()
ClearAllAnimations ==
  /\ LET cleared == clearAllAnimations(anim)
         heard == emitAll(state, cleared.events)
     IN /\ anim' = cleared.anim
        /\ state' = heard.state
        /\ last' = [action |-> "clearAllAnimations", payload |-> Null,
                    emitted |-> heard.emitted, dropped |-> droppedBy(anim)]
  /\ dropped' = dropped \cup droppedBy(anim)
  /\ UNCHANGED <<grid, imports, now, enqueued, completeCalls>>
  /\ UNCHANGED finderVars

\* the tail of a dispatch case that clears the animations but leaves
\* state.curves and state.animationPath to the listeners
ClearAnimationsOnly(action, payload, more) ==
  /\ LET cleared == clearAllAnimations(anim)
         heard == emitAll(state, cleared.events)
     IN /\ anim' = cleared.anim
        /\ state' = heard.state
        /\ last' = [action |-> action, payload |-> payload,
                    emitted |-> heard.emitted \o more,
                    dropped |-> droppedBy(anim)]
  /\ dropped' = dropped \cup droppedBy(anim)
  /\ UNCHANGED <<imports, now, enqueued, completeCalls>>
  /\ UNCHANGED finderVars

\* state.curves = []; state.animationPath = null; clearAllAnimations(),
\* the tail of the dispatch cases that change the grid: action and payload
\* name the case, more is what the case emits after it
ClearCurvesAndAnimations(action, payload, more) ==
  /\ LET cleared == clearAllAnimations(anim)
         heard == emitAll([state EXCEPT !.curves = << >>,
                                        !.animationPath = Null],
                          cleared.events)
     IN /\ anim' = cleared.anim
        /\ state' = heard.state
        /\ last' = [action |-> action, payload |-> payload,
                    emitted |-> heard.emitted \o more,
                    dropped |-> droppedBy(anim)]
  /\ dropped' = dropped \cup droppedBy(anim)
  /\ UNCHANGED <<imports, now, enqueued, completeCalls>>
  /\ UNCHANGED finderVars

\* dispatch('UPDATE_GRID', {rows, cols})
UPDATE_GRID(rows, cols) ==
  /\ grid' = Grid(rows, cols)
  /\ ClearCurvesAndAnimations("UPDATE_GRID", <<rows, cols>>,
                              <<[name |-> "REDRAW"]>>)

\* dispatch('SET_ANIMATION_SPEED', {speed})
SET_ANIMATION_SPEED(speed) ==
  /\ speed # anim.animationSpeed
  /\ anim' = setAnimationSpeed(anim, speed)
  /\ last' = [action |-> "SET_ANIMATION_SPEED",
              payload |-> [speed |-> speed],
              emitted |-> << >>, dropped |-> {}]
  /\ UNCHANGED <<grid, state, imports, now, enqueued, completeCalls, dropped>>
  /\ UNCHANGED finderVars

\* dispatch('RANDOM'): flipped is the set of lines Math.random() < 0.15
\* came out true for
RANDOM(flipped) ==
  /\ grid' = randomizeMirrors(grid, flipped)
  /\ ClearCurvesAndAnimations("RANDOM", flipped, << >>)

\* dispatch('NEXT_CURVE', payload) with a curve as payload
NEXT_CURVE_payload(payload) ==
  /\ enqueued < MaxEnqueued
  /\ LET started == startAnimation(enqueueCurve(anim, Stamp(payload, enqueued + 1)))
         heard == emitAll(state, started.events)
     IN /\ anim' = started.anim
        /\ state' = heard.state
        /\ last' = [action |-> "NEXT_CURVE", payload |-> payload,
                    emitted |-> heard.emitted, dropped |-> {}]
  /\ enqueued' = enqueued + 1
  /\ UNCHANGED <<grid, imports, now, completeCalls, dropped>>
  /\ UNCHANGED finderVars

\* dispatch('NEXT_CURVE') and dispatch('ALL_CURVES'): the dynamic import is
\* started and dispatch returns
ImportFinder(action) ==
  /\ Len(imports) < MaxImports
  /\ imports' = Append(imports, action)
  /\ last' = [action |-> action, payload |-> Null,
              emitted |-> << >>, dropped |-> {}]
  /\ UNCHANGED <<grid, anim, state, now, enqueued, completeCalls, dropped>>
  /\ UNCHANGED finderVars

NEXT_CURVE == ImportFinder("NEXT_CURVE")

ALL_CURVES == ImportFinder("ALL_CURVES")

\* enqueueCurve for each curve of a list in turn, the first as the n-th
\* object enqueued
RECURSIVE enqueueEach(_, _, _)
enqueueEach(am, found, n) ==
  IF Len(found) = 0 THEN am
  ELSE enqueueEach(enqueueCurve(am, Stamp(Head(found), n)), Tail(found), n + 1)

\* what the then-callback of an import finds on the grid: the grid as the
\* finder leaves it and the curves to enqueue
curvesFound(action, g) ==
  IF action = "NEXT_CURVE"
  THEN LET one == findNextCurve(g)
       IN [grid |-> one.grid,
           curves |-> IF one.curve = Null THEN << >> ELSE <<one.curve>>]
  ELSE findAllCurves(g)

\* the rest of the then-callback: found.curves are enqueued and playback
\* is started (NEXT_CURVE does neither when it found no curve)
EnqueueFound(action, found) ==
  /\ enqueued + Len(found.curves) <= MaxEnqueued
  /\ LET started ==
           IF action = "NEXT_CURVE" /\ Len(found.curves) = 0
           THEN [anim |-> anim, events |-> << >>]
           ELSE startAnimation(enqueueEach(anim, found.curves, enqueued + 1))
         heard == emitAll(state, started.events)
     IN /\ anim' = started.anim
        /\ state' = heard.state
        /\ last' = [action |-> "then", payload |-> action,
                    emitted |-> heard.emitted, dropped |-> {}]
  /\ grid' = found.grid
  /\ enqueued' = enqueued + Len(found.curves)

\* the then-callback of the oldest unresolved import runs, on state.grid
\* as it is by now
ImportResolved ==
  /\ Len(imports) > 0
  /\ EnqueueFound(Head(imports), curvesFound(Head(imports), grid))
  /\ imports' = Tail(imports)
  /\ UNCHANGED <<now, completeCalls, dropped>>
  /\ UNCHANGED finderVars

\* dispatch('RESET')
RESET ==
  /\ grid' = resetUsedDirections(grid)
  /\ ClearCurvesAndAnimations("RESET", Null, << >>)

\* dispatch('REDRAW')
REDRAW ==
  /\ grid' = resetUsedDirections(grid)
  /\ ClearCurvesAndAnimations("REDRAW", Null, << >>)

\* dispatch('TOGGLE_MIRROR', {gridLineId})
TOGGLE_MIRROR(gridLineId) ==
  LET line == getGridLine(grid, gridLineId)
  IN IF line # Null /\ ~isBoundaryGridLine(grid, line)
     THEN /\ grid' = setMirror(grid, gridLineId, ~line.isMirror)
          /\ ClearCurvesAndAnimations("TOGGLE_MIRROR", gridLineId,
                                      <<[name |-> "REDRAW"]>>)
     ELSE /\ last' = [action |-> "TOGGLE_MIRROR", payload |-> gridLineId,
                      emitted |-> << >>, dropped |-> {}]
          /\ UNCHANGED <<grid, anim, state, imports, now, enqueued,
                         completeCalls, dropped>>
          /\ UNCHANGED finderVars

QueueNext ==
  \/ \E curve \in SampleCurves : EnqueueCurve(curve)
  \/ StartAnimation
  \/ OnComplete
  \/ \E speed \in Speeds : SET_ANIMATION_SPEED(speed)
  \/ \E timestamp \in 1..MaxTime : Tick(timestamp)

CancelNext ==
  \/ QueueNext
  \/ ClearAllAnimations

DispatchNext ==
  \/ \E rc \in Sizes(MaxAppCells) : UPDATE_GRID(rc[1], rc[2])
  \/ \E gridLineId \in AnyIds(grid) : TOGGLE_MIRROR(gridLineId)
  \/ \E flipped \in SUBSET randomizable(grid) : RANDOM(flipped)
  \/ RESET
  \/ REDRAW
  \/ NEXT_CURVE_payload([id |-> "dummy"])
  \/ NEXT_CURVE
  \/ ALL_CURVES
  \/ ImportResolved
  \/ \E timestamp \in 1..MaxTime : Tick(timestamp)

\* the animation manager driven directly, without cancellation
SpecQueue == QueueInit /\ [][QueueNext]_vars

\* the animation manager driven directly, with clearAllAnimations
SpecCancel == QueueInit /\ [][CancelNext]_vars

\* the state manager's dispatch, the import callbacks and the frames
SpecApp == DispatchInit /\ [][DispatchNext]_vars

(* ---------- the animation manager with cancelAnimation ---------- *)
\* cancelAnimation()
CancelAnimation ==
  /\ anim' = cancelAnimation(anim)
  /\ last' = [action |-> "cancelAnimation", payload |-> Null,
              emitted |-> << >>, dropped |-> droppedBy(anim)]
  /\ dropped' = dropped \cup droppedBy(anim)
  /\ UNCHANGED <<grid, state, imports, now, enqueued, completeCalls>>
  /\ UNCHANGED finderVars

StopNext ==
  \/ CancelNext
  \/ CancelAnimation

\* the animation manager driven directly, with clearAllAnimations and
\* cancelAnimation
SpecStop == QueueInit /\ [][StopNext]_vars

(* ---------- properties of the curve finder ---------- *)
Pairs(g) == {p \in (DOMAIN g.gridLines) \X Dirs : TRUE}

\* the pairs a freshly seeded grid has marked used
PreSeeded(g) ==
  {p \in Pairs(g) : p[2] \in initializeUsedDirections(g).usedDirections[p[1]]}

FindAllReturned == pc = "idle" /\ caller = "findAllCurves" /\ ret = "curves"

HasInteriorMirror ==
  \E id \in interiorIds(grid) : grid.gridLines[id].isMirror

\* C1: when findAllCurves returns, every (line, direction) pair of the grid
\* is marked used, every pair that was not pre-seeded was marked by exactly
\* one of the returned curves, and no pre-seeded pair was marked by a curve.
C1_CoverExactlyOnce ==
  FindAllReturned =>
    /\ \A p \in Pairs(grid) : p[2] \in grid.usedDirections[p[1]]
    /\ \A p \in Pairs(grid) \ PreSeeded(grid) :
         Cardinality({i \in 1..Len(marks) : p \in marks[i]}) = 1
    /\ \A p \in PreSeeded(grid) : \A i \in 1..Len(marks) : p \notin marks[i]

C1_Witness ==
  /\ FindAllReturned
  /\ Len(curves) >= 2
  /\ HasInteriorMirror
  /\ grid.rows >= 2 /\ grid.cols >= 2

\* positions <<k, i>>: entry i of returned curve k
StepsOf(k, upto) ==
  {<<k, i>> : i \in 1..upto}

\* all positions of all returned curves
Positions ==
  UNION {StepsOf(k, Len(curves[k].gridLines)) : k \in 1..Len(curves)}

\* the positions without the last entry of each closed curve
PositionsBeforeClosing ==
  UNION {StepsOf(k, IF curves[k].isClosed
                    THEN Len(curves[k].gridLines) - 1
                    ELSE Len(curves[k].gridLines)) : k \in 1..Len(curves)}

PairAt(pos) ==
  <<curves[pos[1]].gridLines[pos[2]], curves[pos[1]].directions[pos[2]]>>

\* C2 as stated: no (line, direction) pair occurs at two positions of the
\* returned curves, the start entries included.
C2_NoStepTwice ==
  FindAllReturned =>
    \A p, q \in Positions : p # q => PairAt(p) # PairAt(q)

\* C2 amended: the entries of the returned curves, leaving out the last
\* entry of each closed curve (it repeats the curve's start entry), are
\* pairwise distinct pairs that were not pre-seeded; the last entry of a
\* closed curve equals its first.
C2_NoStepTwiceButClosing ==
  FindAllReturned =>
    /\ \A p, q \in PositionsBeforeClosing : p # q => PairAt(p) # PairAt(q)
    /\ \A p \in Positions : PairAt(p) \notin PreSeeded(grid)
    /\ \A k \in 1..Len(curves) :
         curves[k].isClosed =>
           PairAt(<<k, Len(curves[k].gridLines)>>) = PairAt(<<k, 1>>)

C2_Witness ==
  /\ FindAllReturned
  /\ Len(curves) >= 2
  /\ \E k \in 1..Len(curves) :
       \E i, j \in 1..(Len(curves[k].gridLines) - 1) :
         i # j /\ curves[k].gridLines[i] = curves[k].gridLines[j]

\* C3: a curve buildCurve returned true for is exactly one of closed and
\* left-the-grid, and has exitPoint and exitDirection set exactly when it
\* left the grid.
BuiltOk(c) ==
  /\ c.isClosed # c.leftGrid
  /\ c.leftGrid <=> c.exitPoint # Null
  /\ c.leftGrid <=> c.exitDirection # NullDirection

C3_ClosedXorLeftGrid ==
  /\ build.ret = "true" => BuiltOk(build.curve)
  /\ \A k \in 1..Len(curves) : BuiltOk(curves[k])

C3_Witness ==
  /\ caller = "buildCurve"
  /\ build.ret = "true"
  /\ build.curve.leftGrid
  /\ build.curve.exitPoint = build.curve.gridLines[1]
  /\ HasInteriorMirror

\* a BuildStep that appended a segment
Appended ==
  /\ pc = "buildCurve"
  /\ build'.curve # Null
  /\ Len(build'.curve.gridLines) = Len(build.curve.gridLines) + 1

NextEdge == build'.curve.gridLines[Len(build'.curve.gridLines)]

Outgoing == build'.curve.directions[Len(build'.curve.directions)]

\* C4 as stated: each appended step marks used, on the line stepped to,
\* the outgoing direction and the geometric opposite of the outgoing
\* direction.
C4_MarksOutgoingAndItsOpposite ==
  [][Appended =>
       {Outgoing, oppositeOf(Outgoing)} \subseteq grid'.usedDirections[NextEdge]]_vars

\* C4 amended: each appended step marks used, on the line stepped to, the
\* outgoing direction and the geometric opposite of the direction the walk
\* came in with, and nothing else; on a line that is no mirror these are
\* the outgoing direction and its opposite.
C4_MarksOutgoingAndOppositeOfIncoming ==
  [][Appended =>
       /\ grid'.usedDirections =
            [grid.usedDirections EXCEPT
               ![NextEdge] = @ \cup {Outgoing, oppositeOf(build.currentDirection)}]
       /\ ~grid.gridLines[NextEdge].isMirror =>
            oppositeOf(build.currentDirection) = oppositeOf(Outgoing)
       /\ build'.marked =
            build.marked \cup {<<NextEdge, Outgoing>>,
                               <<NextEdge, oppositeOf(build.currentDirection)>>}]_vars

\* a walk stands on an interior mirror it has just been reflected by, and
\* the opposite of its outgoing direction is not marked there
C4_Witness ==
  /\ pc = "buildCurve"
  /\ Len(build.curve.gridLines) >= 2
  /\ build.currentGridLine \in interiorIds(grid)
  /\ grid.gridLines[build.currentGridLine].isMirror
  /\ oppositeOf(build.currentDirection)
       \notin grid.usedDirections[build.currentGridLine]

(* ---------- properties of dispatch and playback ---------- *)
\* dispatch('TOGGLE_MIRROR') with the id of an interior line has returned
ToggledInterior ==
  /\ last.action = "TOGGLE_MIRROR"
  /\ last.payload \in interiorIds(grid)

\* the grid's usedDirections are what initializeUsedDirections seeds
FreshlySeeded ==
  grid.usedDirections = initializeUsedDirections(grid).usedDirections

\* C5: when dispatch of TOGGLE_MIRROR on an interior line, of RANDOM or of
\* RESET has returned, the grid's usedDirections equal the freshly seeded
\* state, whatever curves were traced before.
C5_UsedDirectionsReset ==
  (ToggledInterior \/ last.action \in {"RANDOM", "RESET"}) => FreshlySeeded

\* the grid mutations of C6 have just returned
GridMutationReturned ==
  ToggledInterior \/ last.action \in {"UPDATE_GRID", "RANDOM", "RESET"}

PlaybackCleared ==
  /\ anim.queue = << >>
  /\ anim.currentCurve = Null
  /\ ~anim.isAnimating
  /\ state.animationPath = Null
  /\ state.curves = << >>

\* C6: when dispatch of UPDATE_GRID, of TOGGLE_MIRROR on an interior line,
\* of RANDOM or of RESET returns, the animation queue is empty, no curve is
\* in flight (currentCurve null, isAnimating false), state.animationPath
\* is null and state.curves is empty.
C6_MutationClearsPlayback == GridMutationReturned => PlaybackCleared

\* a mirror was toggled while one curve was playing and another waited
C6_Witness ==
  /\ ToggledInterior
  /\ Cardinality(last.dropped) >= 2
  /\ now >= 1
  /\ PlaybackCleared

\* the enqueue numbers of the events of one kind the last handler emitted
EmittedFor(name) ==
  {IF name = "updateAnimationPath"
   THEN last.emitted[i].payload.of ELSE last.emitted[i].payload.seq :
     i \in {j \in 1..Len(last.emitted) : last.emitted[j].name = name}}

\* the curve whose playback the events of the last frame belong to: the
\* one that just completed, or else the one in flight
Playing ==
  IF EmittedFor("addCompletedCurve") # {}
  THEN Len(state.curves) ELSE Len(state.curves) + 1

\* C7: without cancellation, curves complete in the order they were
\* enqueued (the i-th addCompletedCurve is for the i-th curve enqueued),
\* the curve in flight is the next one in that order and the queue holds
\* the ones after it in order, a partial path is always of the curve in
\* flight, and the events of a frame are all of one curve.
C7_StrictFifo ==
  /\ \A i \in 1..Len(state.curves) : state.curves[i].seq = i
  /\ anim.isAnimating => anim.currentCurve.seq = Len(state.curves) + 1
  /\ \A j \in 1..Len(anim.queue) :
       anim.queue[j].seq = enqueued - Len(anim.queue) + j
  /\ anim.isAnimating => enqueued - Len(anim.queue) = Len(state.curves) + 1
  /\ state.animationPath # Null =>
       anim.isAnimating /\ state.animationPath.of = anim.currentCurve.seq
  /\ EmittedFor("updateAnimationPath") \subseteq {Playing}
  /\ EmittedFor("addCompletedCurve") \subseteq {Playing}

\* one curve has completed, the second is part-way and a third waits
C7_Witness ==
  /\ Len(state.curves) >= 1
  /\ anim.isAnimating
  /\ state.animationPath # Null
  /\ Len(state.animationPath.points) >= 3
  /\ Len(anim.queue) >= 1

C9_ClearAllAnimationsComplete ==
  /\ last.action = "clearAllAnimations" =>
       /\ anim.queue = << >>
       /\ anim.currentCurve = Null
       /\ ~anim.isAnimating
       /\ anim.animationStartTime = 0
       /\ anim.currentPathLength = 0
       /\ anim.animationFrame # "pending"
       /\ \E i \in 1..Len(last.emitted) :
            last.emitted[i].name = "clearAnimationPath"
       /\ state.animationPath = Null
  /\ EmittedFor("updateAnimationPath") \cap dropped = {}
  /\ EmittedFor("addCompletedCurve") \cap dropped = {}
  /\ state.animationPath # Null => state.animationPath.of \notin dropped
  /\ \A i \in 1..Len(state.curves) : state.curves[i].seq \notin dropped

\* a curve in flight and a queued one were dropped, and a curve enqueued
\* after that has completed
C9_Witness ==
  /\ dropped = {1, 2}
  /\ last.action = "animationStep"
  /\ EmittedFor("addCompletedCurve") = {3}

\* horizontal with row 0 or row = rows, vertical with col 0 or col = cols
BoundaryEdge(g, id) ==
  \/ id[1] = "h" /\ (id[2] = 0 \/ id[2] = g.rows)
  \/ id[1] = "v" /\ (id[3] = 0 \/ id[3] = g.cols)

\* C10: after any sequence of dispatches of UPDATE_GRID, TOGGLE_MIRROR
\* with any id, RANDOM, RESET and REDRAW, every boundary line of the grid
\* is a mirror.
C10_BoundaryAlwaysMirror ==
  \A id \in DOMAIN grid.gridLines :
    BoundaryEdge(grid, id) => grid.gridLines[id].isMirror

\* TOGGLE_MIRROR was dispatched with the id of a boundary line, on a grid
\* with an interior mirror
C10_Witness ==
  /\ last.action = "TOGGLE_MIRROR"
  /\ last.payload \in DOMAIN grid.gridLines
  /\ BoundaryEdge(grid, last.payload)
  /\ HasInteriorMirror

(* ---------- the Grid's methods called directly ---------- *)
\* the Grid's methods are called on the grids of at most MaxGridCells cells
MaxGridCells == 2

\* markDirectionUsed, buildCurve and findNextCurve are called directly on
\* a grid with at most MaxMarks pairs marked used besides the seeded ones
MaxMarks == 0

\* setMirror(id, false) is called directly on a boundary line while fewer
\* than MaxUnmirrored boundary lines have lost their mirror
MaxUnmirrored == 1

\* the arguments p of randomizeMirrors, in hundredths
Probabilities == {-1, 0, 15, 100, 101}

\* the values of Math.random(), in hundredths
RandomValues == {0, 50, 99}

\* randomizeMirrors running its loop before it tests p
randomizeMirrorsTestingLate(g, p, random) ==
  [thrown |-> p < 0 \/ p > 100,
   grid |-> randomizeMirrors(g, {id \in randomizable(g) : random[id] < p})]

\* randomizeMirrors(p), p in hundredths: thrown stands for the Error
\* "Probability must be between 0 and 1"; random[id] is the value
\* Math.random() returns in the loop iteration of line id
randomizeMirrorsWith(g, p, random) ==
  IF p < 0 \/ p > 100
  THEN [thrown |-> TRUE, grid |-> g]
  ELSE [thrown |-> FALSE,
        grid |-> randomizeMirrors(g, {id \in randomizable(g) : random[id] < p})]

\* the pairs marked used that initializeUsedDirections does not seed
extraMarks(g) ==
  {p \in (DOMAIN g.gridLines) \X Dirs :
     /\ p[2] \in g.usedDirections[p[1]]
     /\ p[2] \notin seededDirections(g, g.gridLines[p[1]])}

AppIdle ==
  /\ anim = AnimationManager(1)
  /\ state = StateDefaults
  /\ imports = << >>
  /\ now = 0
  /\ last = NoHandler
  /\ enqueued = 0
  /\ completeCalls = 0
  /\ dropped = {}

\* new Grid(rows, cols)
GridInit ==
  /\ \E rc \in Sizes(MaxGridCells) : grid = Grid(rc[1], rc[2])
  /\ FinderIdle
  /\ AppIdle

\* a method of the grid was called: its name, its arguments, what it
\* returned ("Error" when it threw) and the curves it returned
Called(method, arguments, returned, returnedCurves) ==
  /\ last' = [action |-> method, payload |-> arguments,
              emitted |-> << >>, dropped |-> {}]
  /\ ret' = returned
  /\ curves' = returnedCurves
  /\ UNCHANGED <<anim, state, imports, now, enqueued, completeCalls, dropped>>
  /\ UNCHANGED <<pc, caller, scanPos, build, marks>>

\* the boundary lines that are no mirrors
unmirrored(g) == {id \in boundaryIds(g) : ~g.gridLines[id].isMirror}

\* grid.setMirror(lineId, isMirror) with any id and either value
GridSetMirror(lineId, isMirror) ==
  /\ (lineId \in boundaryIds(grid) /\ ~isMirror)
       => Cardinality(unmirrored(grid)) < MaxUnmirrored
  /\ grid' = setMirror(grid, lineId, isMirror)
  /\ Called("setMirror", <<lineId, isMirror>>, "undefined", << >>)

\* grid.randomizeMirrors(p)
GridRandomizeMirrors(p, random) ==
  /\ grid' = randomizeMirrorsWith(grid, p, random).grid
  /\ Called("randomizeMirrors", p,
            IF randomizeMirrorsWith(grid, p, random).thrown
            THEN "Error" ELSE "undefined", << >>)

\* grid.markDirectionUsed(gridLineId, direction)
GridMarkDirectionUsed(gridLineId, direction) ==
  /\ Cardinality(extraMarks(grid)) <= MaxMarks
  /\ grid' = markDirectionUsed(grid, gridLineId, direction)
  /\ Called("markDirectionUsed", <<gridLineId, direction>>, "undefined", << >>)

\* grid.resetUsedDirections()
GridResetUsedDirections ==
  /\ grid' = resetUsedDirections(grid)
  /\ Called("resetUsedDirections", Null, "undefined", << >>)

\* new MirrorCurve(line, direction).buildCurve(grid), run to its return
BuiltCurve(lineId, direction, b) ==
  /\ grid' = b.grid
  /\ Called("buildCurve", <<lineId, direction>>, b.ret, <<b.curve>>)

GridBuildCurve(lineId, direction) ==
  /\ Cardinality(extraMarks(grid)) <= MaxMarks
  /\ BuiltCurve(lineId, direction,
                buildCurve(grid, MirrorCurve(lineId, direction)))

\* findNextCurve(grid) and findAllCurves(grid), run to their return
FoundCurves(function, found) ==
  /\ grid' = found.grid
  /\ Called(function, Null,
            IF function = "findAllCurves" THEN "curves"
            ELSE IF Len(found.curves) = 0 THEN "null" ELSE "curve",
            found.curves)

GridFindNextCurve ==
  /\ Cardinality(extraMarks(grid)) <= MaxMarks
  /\ FoundCurves("findNextCurve", curvesFound("NEXT_CURVE", grid))

GridFindAllCurves == FoundCurves("findAllCurves", curvesFound("ALL_CURVES", grid))

GridNext ==
  \/ \E lineId \in AnyIds(grid), isMirror \in BOOLEAN :
       GridSetMirror(lineId, isMirror)
  \/ \E p \in Probabilities, random \in [randomizable(grid) -> RandomValues] :
       GridRandomizeMirrors(p, random)
  \/ \E gridLineId \in AnyIds(grid), direction \in Dirs :
       GridMarkDirectionUsed(gridLineId, direction)
  \/ GridResetUsedDirections
  \/ \E lineId \in DOMAIN grid.gridLines, direction \in Dirs :
       GridBuildCurve(lineId, direction)
  \/ GridFindNextCurve
  \/ GridFindAllCurves

\* the methods of a grid and the curve finder called in any order
SpecGrid == GridInit /\ [][GridNext]_vars

(* ---------- dispatch UPDATE_GRID with any dimensions ---------- *)
\* the rows and cols a payload of UPDATE_GRID carries
Dimensions == {-1, 0, 1, 2}

ResizeInit ==
  /\ grid = Grid(1, 1)
  /\ FinderIdle
  /\ AppIdle

ResizeNext ==
  \/ \E rows \in Dimensions, cols \in Dimensions :
       /\ rows * cols <= MaxAppCells
       /\ UPDATE_GRID(rows, cols)
  \/ ALL_CURVES
  \/ ImportResolved
  \/ \E timestamp \in 1..MaxTime : Tick(timestamp)

\* grids are replaced, with dimensions of either sign, while curves are
\* found and played
SpecResize == ResizeInit /\ [][ResizeNext]_vars

(* ---------- dispatch with frames long enough to complete curves ---------- *)
\* the frames arrive FrameInterval time units apart, long enough for any
\* curve of the grids below to complete between two frames
FrameInterval == 8

\* no frame arrives after MaxDisplayTime
MaxDisplayTime == 32

DisplayInit ==
  /\ \E rc \in Sizes(MaxAppCells) : grid = Grid(rc[1], rc[2])
  /\ FinderIdle
  /\ AppInit

DisplayNext ==
  \/ \E rc \in Sizes(MaxAppCells) : UPDATE_GRID(rc[1], rc[2])
  \/ \E gridLineId \in AnyIds(grid) : TOGGLE_MIRROR(gridLineId)
  \/ \E flipped \in SUBSET randomizable(grid) : RANDOM(flipped)
  \/ RESET
  \/ NEXT_CURVE
  \/ ALL_CURVES
  \/ ImportResolved
  \/ now + FrameInterval <= MaxDisplayTime /\ Tick(now + FrameInterval)

\* the dispatches that find, clear and change, the import callbacks and
\* frames up to MaxDisplayTime
SpecDisplay == DisplayInit /\ [][DisplayNext]_vars

(* ---------- playback with frames that keep arriving ---------- *)
\* the frames arrive ShortFrame time units apart, so that a curve of the
\* 1x1 grid takes several frames at speed 1
ShortFrame == 2

\* the browser calls the pending frame callback; the bound on the clock
\* lies beyond the time MaxEnqueued curves take
Frame ==
  /\ now + ShortFrame <= 3 * MaxEnqueued * ShortFrame
  /\ now' = now + ShortFrame
  /\ Tick(now + ShortFrame)

LiveInit ==
  /\ grid = Grid(1, 1)
  /\ FinderIdle
  /\ AppInit

\* dispatches that enqueue and start, the registration of the callback,
\* speed changes and frames: no cancellation, no change of the grid
LiveNext ==
  \/ \E payload \in SampleCurves : NEXT_CURVE_payload(payload)
  \/ OnComplete
  \/ \E speed \in Speeds : SET_ANIMATION_SPEED(speed)
  \/ Frame

\* the step of the clock that Frame takes: Frame is the only action that
\* advances the clock, and it can run whenever a frame is pending
FrameDelivered ==
  /\ anim.animationFrame = "pending"
  /\ now + ShortFrame <= 3 * MaxEnqueued * ShortFrame
  /\ now' = now + ShortFrame

\* a requested animation frame is eventually delivered
SpecLive == LiveInit /\ [][LiveNext]_vars /\ WF_now(FrameDelivered)

(* ---------- playback with speed changes ---------- *)
SpeedInit ==
  /\ \E rc \in Sizes(MaxAppCells) : grid = Grid(rc[1], rc[2])
  /\ FinderIdle
  /\ AppInit

\* the dispatches that find curves and set the speed, the import
\* callbacks and the frames
SpeedNext ==
  \/ NEXT_CURVE
  \/ ALL_CURVES
  \/ ImportResolved
  \/ \E speed \in Speeds : SET_ANIMATION_SPEED(speed)
  \/ \E timestamp \in 1..MaxTime : Tick(timestamp)

SpecSpeed == SpeedInit /\ [][SpeedNext]_vars

(* ---------- point sampling along a polyline ---------- *)
\* points are <<x, y>> with coordinates in 0..MaxCoord, a polyline has at
\* most MaxPoints of them
MaxCoord == 2
MaxPoints == 3

Abs(n) == IF n < 0 THEN -n ELSE n

\* Math.sqrt(dx*dx + dy*dy) for a segment along one axis
segmentLength(a, b) == Abs(b[1] - a[1]) + Abs(b[2] - a[2])

\* the polylines whose segments run along one axis (a repeated point is a
\* segment of length 0)
AxisAligned(points) ==
  \A i \in 1..(Len(points) - 1) :
     points[i][1] = points[i + 1][1] \/ points[i][2] = points[i + 1][2]

Polylines ==
  {points \in UNION {[1..n -> (0..MaxCoord) \X (0..MaxCoord)] : n \in 2..MaxPoints} :
     /\ AxisAligned(points)
     /\ points[1][1] = points[Len(points)][1] \/ points[1][2] = points[Len(points)][2]}

\* the for loop of calculatePathLength up to point i
RECURSIVE lengthUpTo(_, _)
lengthUpTo(points, i) ==
  IF i <= 1 THEN 0
  ELSE lengthUpTo(points, i - 1) + segmentLength(points[i - 1], points[i])

\* calculatePathLength on points with coordinates
calculatePathLengthXY(points, isClosed) ==
  IF Len(points) < 2 THEN 0
  ELSE lengthUpTo(points, Len(points))
       + (IF isClosed /\ Len(points) > 1
          THEN segmentLength(points[Len(points)], points[1]) ELSE 0)

\* the point at ratio remaining / length from a to b; notANumber when the
\* ratio is 0 / 0
interpolate(a, b, remaining, length) ==
  IF length = 0
  THEN [x |-> 0, y |-> 0, notANumber |-> TRUE]
  ELSE [x |-> a[1] + (remaining * (b[1] - a[1])) \div length,
        y |-> a[2] + (remaining * (b[2] - a[2])) \div length,
        notANumber |-> FALSE]

\* a point of the input returned as it is
pointOf(p) == [x |-> p[1], y |-> p[2], notANumber |-> FALSE]

\* getPointAtDistance returning the last point whenever its loop ends
getPointAtDistanceEnd(points, targetDistance, isClosed) ==
  [point |-> pointOf(points[Len(points)]), segmentIndex |-> Len(points) - 1]

\* what getPointAtDistance does once its for loop has ended: the
\* wraparound segment of a closed curve, then the fall-through return
getPointAtDistanceWrap(points, targetDistance, isClosed) ==
  LET n == Len(points)
      distanceTraveled == lengthUpTo(points, n)
      length == segmentLength(points[n], points[1])
  IN IF isClosed /\ n > 1 /\ distanceTraveled + length >= targetDistance
     THEN [point |-> interpolate(points[n], points[1],
                                 targetDistance - distanceTraveled, length),
           segmentIndex |-> n - 1]
     ELSE [point |-> pointOf(IF isClosed THEN points[1] ELSE points[n]),
           segmentIndex |-> n - 1]

\* the for loop of getPointAtDistance at index i (from 1, as in the source)
RECURSIVE getPointAtDistanceLoop(_, _, _, _)
getPointAtDistanceLoop(points, targetDistance, isClosed, i) ==
  IF i >= Len(points)
  THEN getPointAtDistanceWrap(points, targetDistance, isClosed)
  ELSE LET distanceTraveled == lengthUpTo(points, i)
           length == segmentLength(points[i], points[i + 1])
       IN IF distanceTraveled + length >= targetDistance
          THEN [point |-> interpolate(points[i], points[i + 1],
                                      targetDistance - distanceTraveled, length),
                segmentIndex |-> i - 1]
          ELSE getPointAtDistanceLoop(points, targetDistance, isClosed, i + 1)

\* getPointAtDistance on points with coordinates
getPointAtDistanceXY(points, targetDistance, isClosed) ==
  IF Len(points) < 2 \/ targetDistance <= 0
  THEN [point |-> pointOf(points[1]), segmentIndex |-> 0]
  ELSE getPointAtDistanceLoop(points, targetDistance, isClosed, 1)

\* the module state apart from the record of the last call
ModuleIdle ==
  /\ anim = AnimationManager(1)
  /\ state = StateDefaults
  /\ imports = << >>
  /\ now = 0
  /\ enqueued = 0
  /\ completeCalls = 0
  /\ dropped = {}

\* the arguments of a call that was not made yet
Arguments(arguments) == [NoHandler EXCEPT !.payload = arguments]

\* a polyline, a distance up to one past its length and the flag isClosed
SampleInit ==
  /\ grid = Grid(1, 1)
  /\ FinderIdle
  /\ ModuleIdle
  /\ \E points \in Polylines, isClosed \in BOOLEAN :
       \E targetDistance \in 0..(calculatePathLengthXY(points, isClosed) + 1) :
          last = Arguments([points |-> points,
                            targetDistance |-> targetDistance,
                            isClosed |-> isClosed])

\* getPointAtDistance(points, targetDistance, isClosed) is called; ret is
\* what it returns
SamplePath ==
  /\ last.action = "none"
  /\ last' = [last EXCEPT !.action = "getPointAtDistance"]
  /\ ret' = getPointAtDistanceXY(last.payload.points,
                                 last.payload.targetDistance,
                                 last.payload.isClosed)
  /\ UNCHANGED <<grid, pc, caller, scanPos, build, curves, marks>>
  /\ UNCHANGED <<anim, state, imports, now, enqueued, completeCalls, dropped>>

SampleNext == SamplePath

\* getPointAtDistance called on every polyline at every distance
SpecSample == SampleInit /\ [][SampleNext]_vars

(* ---------- spline interpolation (getSplinePoints) ---------- *)
\* coordinates are whole multiples of 0.0005, so that the test
\* Math.abs(a - b) < 0.001 reads Abs(a - b) < Epsilon
Epsilon == 2

\* rawPoints has at most MaxRaw points, subdivisions is at most
\* MaxSubdivisions
MaxRaw == 4
MaxSubdivisions == 3

\* 1 - tension is slack / TensionDen with slack in 0..TensionDen
TensionDen == 2

\* the control points: rawPoints[0] is <<1, 4>>, the others are taken from
\* points at distance 0, below Epsilon and above Epsilon of it
RawInputs ==
  {raw \in UNION {[1..n -> {0, 1, 4} \X {0, 4}] : n \in 1..MaxRaw} :
     raw[1] = <<1, 4>>}

\* the output coordinates are fractions over this denominator
scaleOf(subdivisions) ==
  2 * TensionDen * subdivisions * subdivisions * subdivisions

alreadyClosed(rawPoints) ==
  LET N == Len(rawPoints)
  IN /\ N > 1
     /\ Abs(rawPoints[1][1] - rawPoints[N][1]) < Epsilon
     /\ Abs(rawPoints[1][2] - rawPoints[N][2]) < Epsilon

\* effectivePoints keeping the last point of a closed input
effectivePointsAll(rawPoints) == rawPoints

effectivePoints(rawPoints) ==
  IF alreadyClosed(rawPoints)
  THEN SubSeq(rawPoints, 1, Len(rawPoints) - 1)
  ELSE rawPoints

\* tangents[i] (i from 0) times 2 * TensionDen
tangentOf(points, i, slack) ==
  LET numPoints == Len(points)
      prev == points[((i - 1 + numPoints) % numPoints) + 1]
      next == points[((i + 1) % numPoints) + 1]
  IN <<(next[1] - prev[1]) * slack, (next[2] - prev[2]) * slack>>

\* the point of segmentSubdivision at t = j / subdivisions, times
\* scaleOf(subdivisions); the Hermite basis is taken times subdivisions^3
hermitePoint(P0, P1, M0, M1, j, subdivisions) ==
  LET S == subdivisions
      h00 == 2 * j * j * j - 3 * j * j * S + S * S * S
      h10 == j * j * j - 2 * j * j * S + j * S * S
      h01 == 3 * j * j * S - 2 * j * j * j
      h11 == j * j * j - j * j * S
  IN <<2 * TensionDen * (h00 * P0[1] + h01 * P1[1]) + h10 * M0[1] + h11 * M1[1],
       2 * TensionDen * (h00 * P0[2] + h01 * P1[2]) + h10 * M0[2] + h11 * M1[2]>>

segmentSubdivision(P0, P1, M0, M1, subdivisions) ==
  [j \in 1..subdivisions |->
     hermitePoint(P0, P1, M0, M1, j - 1, subdivisions)]

\* the segments i, i + 1, ... of the loop that builds the curve (i from 0)
RECURSIVE splineSegments(_, _, _, _)
splineSegments(points, slack, subdivisions, i) ==
  IF i >= Len(points) THEN << >>
  ELSE LET numPoints == Len(points)
       IN segmentSubdivision(points[i + 1],
                             points[((i + 1) % numPoints) + 1],
                             tangentOf(points, i, slack),
                             tangentOf(points, (i + 1) % numPoints, slack),
                             subdivisions)
          \o splineSegments(points, slack, subdivisions, i + 1)

\* a point of the input, times scaleOf(subdivisions)
scaled(point, subdivisions) ==
  <<point[1] * scaleOf(subdivisions), point[2] * scaleOf(subdivisions)>>

\* getSplinePoints(rawPoints, tension, subdivisions): the points returned,
\* times scaleOf(subdivisions)
getSplinePoints(rawPoints, slack, subdivisions) ==
  IF Len(rawPoints) < 2
  THEN [i \in 1..Len(rawPoints) |-> scaled(rawPoints[i], subdivisions)]
  ELSE splineSegments(effectivePoints(rawPoints), slack, subdivisions, 0)
       \o (IF alreadyClosed(rawPoints)
           THEN <<scaled(effectivePoints(rawPoints)[1], subdivisions)>>
           ELSE << >>)

\* control points, a tension and a number of subdivisions
SplineInit ==
  /\ grid = Grid(1, 1)
  /\ FinderIdle
  /\ ModuleIdle
  /\ \E rawPoints \in RawInputs, slack \in 0..TensionDen,
        subdivisions \in 1..MaxSubdivisions :
          last = Arguments([rawPoints |-> rawPoints,
                            slack |-> slack,
                            subdivisions |-> subdivisions])

\* getSplinePoints is called; ret is what it returns
SplinePoints ==
  /\ last.action = "none"
  /\ last' = [last EXCEPT !.action = "getSplinePoints"]
  /\ ret' = getSplinePoints(last.payload.rawPoints, last.payload.slack,
                            last.payload.subdivisions)
  /\ UNCHANGED <<grid, pc, caller, scanPos, build, curves, marks>>
  /\ UNCHANGED <<anim, state, imports, now, enqueued, completeCalls, dropped>>

SplineNext == SplinePoints

\* getSplinePoints called on every input
SpecSpline == SplineInit /\ [][SplineNext]_vars

(* ---------- the 3x3 grid with at most one interior mirror ---------- *)
\* new Grid(3, 3)
ScenarioGrid == Grid(3, 3)

ScenarioInit ==
  /\ grid = ScenarioGrid
  /\ FinderIdle
  /\ AppIdle

\* grid.setMirror(lineId, true) on one interior line of the grid that has
\* boundary mirrors only
SetOneMirror(lineId) ==
  /\ ~HasInteriorMirror
  /\ SetMirror(lineId)

ScenarioNext ==
  \/ \E lineId \in interiorIds(grid) : SetOneMirror(lineId)
  \/ CallFindAllCurves
  \/ FindNextScan
  \/ BuildStep

\* findAllCurves on the 3x3 grid without interior mirror and with each
\* single interior mirror
SpecScenario == ScenarioInit /\ [][ScenarioNext]_vars

(* ---------- properties of the Grid's methods ---------- *)
\* the last call was method
LastCall(method) == last.action = method

\* C11: after Grid.setMirror(lineId, false) on a boundary line, that line
\* is still a mirror
C11_SetMirrorKeepsBoundary ==
  (/\ LastCall("setMirror")
   /\ BoundaryEdge(grid, last.payload[1])
   /\ last.payload[2] = FALSE)
    => grid.gridLines[last.payload[1]].isMirror

(* ---------- properties of findNextCurve ---------- *)
\* the fixed scan order of the lines: the horizontal ones before the
\* vertical ones, each kind by row and then by column
ScanBefore(a, b) ==
  \/ a[1] = "h" /\ b[1] = "v"
  \/ a[1] = b[1] /\ (a[2] < b[2] \/ (a[2] = b[2] /\ a[3] < b[3]))

\* the directions of line id that are not consumed in grid g
Unconsumed(g, id) == Dirs \ g.usedDirections[id]

\* direction d comes first of the set ds in the order NW, NE, SW, SE
FirstOf(d, ds) ==
  /\ d \in ds
  /\ \A e \in ds : \/ e = d
                   \/ d = NW
                   \/ d = NE /\ e \in {SW, SE}
                   \/ d = SW /\ e = SE

\* findNextCurve starts a curve in this step, on the grid as it was called
StartsCurve == pc = "findNextCurve" /\ scanPos = 1 /\ pc' = "buildCurve"

AllConsumed(g) == \A id \in DOMAIN g.gridLines : Unconsumed(g, id) = {}

\* findNextCurve, called by itself, is at the head of its loop on the grid
\* as it was called
FindNextCalled == pc = "findNextCurve" /\ caller = "findNextCurve" /\ scanPos = 1

Reflected(type, d) ==
  IF type = "horizontal" THEN (d + 2) % 4 ELSE d + 1 - 2 * (d % 2)

\* C14: getReflectedDirection is a function of the line's orientation and
\* mirror flag alone: a horizontal mirror swaps NW with SW and NE with SE,
\* a vertical mirror swaps NW with NE and SW with SE, a line that is no
\* mirror returns the direction unchanged, and reflecting twice at the
\* same line gives the direction back
C14_ReflectionTable ==
  \A id \in DOMAIN grid.gridLines, d \in Dirs :
     /\ getReflectedDirection(grid, id, d) =
          IF grid.gridLines[id].isMirror
          THEN Reflected(grid.gridLines[id].type, d) ELSE d
     /\ getReflectedDirection(grid, id, getReflectedDirection(grid, id, d)) = d
     /\ \A other \in DOMAIN grid.gridLines :
          (/\ grid.gridLines[other].type = grid.gridLines[id].type
           /\ grid.gridLines[other].isMirror = grid.gridLines[id].isMirror)
            => getReflectedDirection(grid, other, d)
                 = getReflectedDirection(grid, id, d)

\* a walk has just turned at an interior mirror of a grid that has interior
\* mirrors of both orientations and an interior line that is no mirror
C14_Witness ==
  /\ pc = "buildCurve"
  /\ Len(build.curve.gridLines) >= 2
  /\ LET n == Len(build.curve.gridLines)
     IN /\ build.curve.gridLines[n] \in interiorIds(grid)
        /\ grid.gridLines[build.curve.gridLines[n]].isMirror
        /\ build.curve.directions[n] # build.curve.directions[n - 1]
  /\ \E h \in interiorIds(grid), v \in interiorIds(grid), o \in interiorIds(grid) :
       /\ h[1] = "h" /\ grid.gridLines[h].isMirror
       /\ v[1] = "v" /\ grid.gridLines[v].isMirror
       /\ ~grid.gridLines[o].isMirror

\* C15: every stored connection is null or the id of a line of the grid,
\* getAdjacentGridLine signals the exit from the grid exactly when the
\* stored connection is null and otherwise returns that line's id, and the
\* walk of buildCurve stands only on lines of the grid
C15_ConnectionsExist ==
  /\ \A id \in DOMAIN grid.gridLines, d \in Dirs :
       LET stored == grid.gridLines[id].connections[d]
           adjacent == getAdjacentGridLine(grid, id, d)
       IN /\ stored = Null \/ stored \in DOMAIN grid.gridLines
          /\ adjacent.thrown <=> stored = Null
          /\ ~adjacent.thrown =>
               /\ adjacent.value = stored
               /\ getGridLine(grid, adjacent.value) # Null
  /\ build # NoBuild =>
       /\ build.currentGridLine \in DOMAIN grid.gridLines
       /\ \A i \in 1..Len(build.curve.gridLines) :
            build.curve.gridLines[i] \in DOMAIN grid.gridLines
       /\ build.ret # "false"
  /\ \A k \in 1..Len(curves) : \A i \in 1..Len(curves[k].gridLines) :
       curves[k].gridLines[i] \in DOMAIN grid.gridLines

\* a walk on a grid that is not square has reached a boundary line, where
\* two connections are null, after at least two steps
C15_Witness ==
  /\ pc = "buildCurve"
  /\ grid.rows # grid.cols
  /\ Len(build.curve.gridLines) >= 3
  /\ build.currentGridLine \in boundaryIds(grid)
  /\ \E d \in Dirs : grid.gridLines[build.currentGridLine].connections[d] = Null
  /\ HasInteriorMirror

\* the directions consumed from the start on a line at position id of grid
\* g: the two that point out of the grid on a boundary line, none on an
\* interior line
PointingOut(g, id) ==
  IF id[1] = "h" /\ id[2] = 0 THEN {NW, NE}
  ELSE IF id[1] = "h" /\ id[2] = g.rows THEN {SW, SE}
  ELSE IF id[1] = "v" /\ id[3] = 0 THEN {NW, SW}
  ELSE IF id[1] = "v" /\ id[3] = g.cols THEN {NE, SE}
  ELSE {}

\* the grid was constructed or resetUsedDirections was called, and no
\* other method since
FreshOrReset == LastCall("none") \/ LastCall("resetUsedDirections")

\* C16: right after construction and right after every
\* resetUsedDirections, a direction of a line is consumed exactly when the
\* line's connection in that direction is null: the two outward
\* directions of each boundary line (top NW, NE; bottom SW, SE; left NW,
\* SW; right NE, SE) and no direction of an interior line
C16_SeededIffNoNeighbor ==
  FreshOrReset =>
    \A id \in DOMAIN grid.gridLines :
       /\ \A d \in Dirs :
            d \in grid.usedDirections[id]
              <=> grid.gridLines[id].connections[d] = Null
       /\ grid.usedDirections[id] = PointingOut(grid, id)
       /\ Cardinality(grid.usedDirections[id]) =
            IF BoundaryEdge(grid, id) THEN 2 ELSE 0

\* resetUsedDirections was called on a grid with an interior line, after an
\* interior mirror was set and a boundary mirror removed
C16_Witness ==
  /\ LastCall("resetUsedDirections")
  /\ HasInteriorMirror
  /\ unmirrored(grid) # {}
  /\ \E id \in DOMAIN grid.gridLines : ~BoundaryEdge(grid, id)

\* what a grid is built of: its size, its lines in their order, and each
\* line's orientation, position and connections
Structure(g) ==
  [rows |-> g.rows,
   cols |-> g.cols,
   order |-> g.order,
   lines |-> [id \in DOMAIN g.gridLines |->
                [id |-> g.gridLines[id].id,
                 type |-> g.gridLines[id].type,
                 row |-> g.gridLines[id].row,
                 col |-> g.gridLines[id].col,
                 connections |-> g.gridLines[id].connections]]]

\* C17: no call of setMirror, randomizeMirrors, markDirectionUsed,
\* resetUsedDirections, buildCurve, findNextCurve or findAllCurves on a
\* grid changes a line's connections, orientation, row or column, nor the
\* set of lines: only isMirror and the consumed sets change
C17_StructureFrozen ==
  [][/\ Structure(grid') = Structure(grid)
     /\ DOMAIN grid'.usedDirections = DOMAIN grid.usedDirections]_vars

\* findAllCurves returned two or more curves on a grid whose mirrors were
\* changed and one boundary mirror removed
C17_Witness ==
  /\ LastCall("findAllCurves")
  /\ Len(curves) >= 2
  /\ HasInteriorMirror
  /\ unmirrored(grid) # {}

(* ---------- properties of the 3x3 grid ---------- *)
\* findAllCurves has returned on the 3x3 grid
ScenarioReturned == FindAllReturned /\ grid.rows = 3 /\ grid.cols = 3

\* the number of steps of a curve: its entries after the start entry
StepCount(curve) == Len(curve.gridLines) - 1

\* C18 as stated: on the 3x3 grid with boundary mirrors only,
\* findAllCurves returns exactly one closed curve
C18_OneClosedCurve ==
  (ScenarioReturned /\ ~HasInteriorMirror) =>
    /\ Len(curves) = 1
    /\ curves[1].isClosed

\* C18: on the 3x3 grid with boundary mirrors only, findAllCurves returns
\* exactly three curves, each closed and of twelve steps
C18_ThreeClosedCurves ==
  (ScenarioReturned /\ ~HasInteriorMirror) =>
    /\ Len(curves) = 3
    /\ \A k \in 1..Len(curves) :
         /\ curves[k].isClosed
         /\ ~curves[k].leftGrid
         /\ StepCount(curves[k]) = 12

\* findAllCurves returned on the 3x3 grid with boundary mirrors only
C18_Witness ==
  /\ ScenarioReturned
  /\ ~HasInteriorMirror
  /\ Len(curves) >= 1

\* how many curves of cs have each step count
Profile(cs) ==
  [n \in {StepCount(cs[k]) : k \in 1..Len(cs)} |->
     Cardinality({k \in 1..Len(cs) : StepCount(cs[k]) = n})]

\* the curves of the 3x3 grid with boundary mirrors only
BaselineCurves == findAllCurves(ScenarioGrid).curves

\* the interior lines that are mirrors
InteriorMirrors == {id \in interiorIds(grid) : grid.gridLines[id].isMirror}

\* C19: on the 3x3 grid with a mirror on exactly one interior line,
\* whichever line it is, findAllCurves returns curves that differ from
\* those of the grid without interior mirror in their number or in the
\* multiset of their step counts, and the curves together consume every
\* pair that was not consumed from the start
C19_OneMirrorChangesPartition ==
  (ScenarioReturned /\ Cardinality(InteriorMirrors) = 1) =>
    /\ \/ Len(curves) # Len(BaselineCurves)
       \/ Profile(curves) # Profile(BaselineCurves)
    /\ \A p \in Pairs(grid) : p[2] \in grid.usedDirections[p[1]]
    /\ \A p \in Pairs(grid) \ PreSeeded(grid) :
         \E i \in 1..Len(marks) : p \in marks[i]

\* findAllCurves returned two curves on the 3x3 grid with one interior
\* vertical mirror
C19_Witness ==
  /\ ScenarioReturned
  /\ Cardinality(InteriorMirrors) = 1
  /\ \E id \in InteriorMirrors : id[1] = "v"
  /\ Len(curves) = 2

(* ---------- properties of randomizeMirrors ---------- *)
\* this step is a call of randomizeMirrors
RandomizeCalled == last'.action = "randomizeMirrors"

\* C20: randomizeMirrors(p) throws exactly when p < 0 or p > 1, and then no
\* line's isMirror and no consumed set has changed; with 0 <= p <= 1 it
\* changes isMirror of interior lines only and nothing else, of none of
\* them when p = 0 and of each of them when p = 1
C20_RandomizeMirrors ==
  [][RandomizeCalled =>
       /\ ret' = "Error" <=> (last'.payload < 0 \/ last'.payload > 100)
       /\ ret' = "Error" => grid' = grid
       /\ grid'.usedDirections = grid.usedDirections
       /\ \A id \in DOMAIN grid.gridLines :
            /\ BoundaryEdge(grid, id) =>
                 grid'.gridLines[id].isMirror = grid.gridLines[id].isMirror
            /\ [grid'.gridLines[id] EXCEPT !.isMirror = FALSE]
                 = [grid.gridLines[id] EXCEPT !.isMirror = FALSE]
       /\ last'.payload = 0 => grid' = grid
       /\ last'.payload = 100 =>
            \A id \in DOMAIN grid.gridLines :
               ~BoundaryEdge(grid, id) =>
                 grid'.gridLines[id].isMirror = ~grid.gridLines[id].isMirror]_vars

\* randomizeMirrors threw for p > 1 on a grid with an interior mirror, a
\* boundary line without mirror and a direction marked used
C20_Witness ==
  /\ LastCall("randomizeMirrors")
  /\ ret = "Error"
  /\ last.payload > 100
  /\ HasInteriorMirror
  /\ unmirrored(grid) # {}
  /\ extraMarks(grid) # {}

(* ---------- properties of UPDATE_GRID ---------- *)
\* C21: dispatch UPDATE_GRID with rows <= 0 or cols <= 0 builds no grid
\* and leaves the current grid, the displayed curves and the playback
\* state as they are
C21_NonPositiveRejected ==
  [][\A rows \in Dimensions, cols \in Dimensions :
       ((rows <= 0 \/ cols <= 0) /\ UPDATE_GRID(rows, cols)) =>
         /\ grid' = grid
         /\ state' = state
         /\ anim' = anim]_vars

(* ---------- properties of getPointAtDistance ---------- *)
\* getPointAtDistance was called on at least two points
Sampled == LastCall("getPointAtDistance") /\ Len(last.payload.points) >= 2

\* C22: on a polyline of at least two points, getPointAtDistance returns
\* the first point with segment index 0 at distance 0, and at the distance
\* of the whole path length it returns the last point of an open curve and
\* the first point (the end of the wraparound segment) of a closed one
C22_EndsOfThePath ==
  Sampled =>
    LET points == last.payload.points
        isClosed == last.payload.isClosed
        targetDistance == last.payload.targetDistance
    IN /\ targetDistance = 0 =>
            /\ ret.point = pointOf(points[1])
            /\ ret.segmentIndex = 0
       /\ targetDistance = calculatePathLengthXY(points, isClosed) =>
            ret.point = pointOf(IF isClosed THEN points[1]
                                ELSE points[Len(points)])

\* the whole length of a closed polyline of three distinct points, whose
\* wraparound segment has a length, was asked for
C22_Witness ==
  /\ Sampled
  /\ last.payload.isClosed
  /\ Len(last.payload.points) = 3
  /\ last.payload.points[3] # last.payload.points[1]
  /\ last.payload.points[2] # last.payload.points[1]
  /\ last.payload.targetDistance
       = calculatePathLengthXY(last.payload.points, TRUE)
  /\ ret.segmentIndex = 2

(* ---------- properties of getSplinePoints ---------- *)
\* getSplinePoints was called on a cyclic input: at least two points, the
\* last within epsilon of the first
SplinedCyclic ==
  /\ LastCall("getSplinePoints")
  /\ Len(last.payload.rawPoints) >= 2
  /\ Abs(last.payload.rawPoints[1][1]
          - last.payload.rawPoints[Len(last.payload.rawPoints)][1]) < Epsilon
  /\ Abs(last.payload.rawPoints[1][2]
          - last.payload.rawPoints[Len(last.payload.rawPoints)][2]) < Epsilon

\* C23: for a cyclic input of N points getSplinePoints returns
\* (N - 1) * subdivisions + 1 points, the first and the last of which are
\* the same point, the first point of the input
C23_SplineClosesExactly ==
  SplinedCyclic =>
    LET rawPoints == last.payload.rawPoints
        subdivisions == last.payload.subdivisions
    IN /\ Len(ret) = (Len(rawPoints) - 1) * subdivisions + 1
       /\ ret[1] = ret[Len(ret)]
       /\ ret[1] = scaled(rawPoints[1], subdivisions)

\* four points were given, the last within epsilon of the first but not
\* equal to it, the two between them apart, with tension 0.5 and two
\* subdivisions
C23_Witness ==
  /\ SplinedCyclic
  /\ Len(last.payload.rawPoints) = 4
  /\ last.payload.rawPoints[4] # last.payload.rawPoints[1]
  /\ last.payload.rawPoints[2] = <<4, 0>>
  /\ last.payload.rawPoints[3] = <<0, 0>>
  /\ last.payload.slack = 1
  /\ last.payload.subdivisions = 2

(* ---------- properties of the animation manager's events ---------- *)
\* this step takes a curve from the queue for playback
Dequeued ==
  /\ Len(anim.queue) > 0
  /\ anim'.queue = Tail(anim.queue)
  /\ anim'.currentCurve = Head(anim.queue)

\* C24: whenever a curve is taken from the queue for playback, by
\* startAnimation or by the frame that completes the curve before it, a
\* renderCurve event carrying that curve is emitted
C24_RenderCurveEmitted ==
  [][Dequeued =>
       \E i \in 1..Len(last'.emitted) :
          /\ last'.emitted[i].name = "renderCurve"
          /\ last'.emitted[i].payload = anim'.currentCurve]_vars

(* ---------- properties of the curves the application finds ---------- *)
\* the curve in flight, if any
InFlight == IF anim.currentCurve = Null THEN {} ELSE {anim.currentCurve}

\* the curves built by findNextCurve or findAllCurves that wait in the
\* queue, are in flight or are displayed (the curves dispatched as a
\* payload have no gridLines)
TracedCurves ==
  {c \in Range(anim.queue) \cup InFlight \cup Range(state.curves) :
     "gridLines" \in DOMAIN c}

\* C25: every curve that findNextCurve or findAllCurves builds for a
\* dispatch, on a grid constructed with rows, cols >= 1 and changed by
\* dispatches only, is closed: leftGrid is false and there is no exit
\* point or exit direction
C25_AlwaysClosed ==
  \A c \in TracedCurves :
     /\ c.isClosed
     /\ ~c.leftGrid
     /\ c.exitPoint = Null
     /\ c.exitDirection = NullDirection

\* NEXT_CURVE found a curve on a grid with an interior mirror after an
\* earlier curve had completed
C25_Witness ==
  /\ last.action = "then"
  /\ last.payload = "NEXT_CURVE"
  /\ HasInteriorMirror
  /\ \E c \in TracedCurves : c \in Range(state.curves)
  /\ \E c \in TracedCurves : c \in InFlight

\* a walk is under way or has returned, and it started where findNextCurve
\* can start one: at a direction that is not pre-seeded as consumed
\* (whatever else is consumed, the walk itself never reads it)
WalkOfFinder ==
  /\ build.ret # "none"
  /\ \/ caller \in {"findNextCurve", "findAllCurves"}
     \/ /\ caller = "buildCurve"
        /\ build.curve.directions[1] \notin
             seededDirections(grid, grid.gridLines[build.curve.gridLines[1]])

\* the segments a walk has appended so far
SegmentsAppended == Len(build.curve.gridLines) - 1

PendingTraced ==
  {c \in Range(anim.queue) \cup InFlight : "gridLines" \in DOMAIN c}

\* the mirror flag of every line of the grid
MirrorFlags == [id \in DOMAIN grid.gridLines |-> grid.gridLines[id].isMirror]

\* curve c is what the walk from its first line in its first direction
\* yields on the grid as it is now
TracedOnCurrentGrid(c) ==
  /\ c.gridLines[1] \in DOMAIN grid.gridLines
  /\ LET again == buildCurve(grid, MirrorCurve(c.gridLines[1], c.directions[1])).curve
     IN /\ again.gridLines = c.gridLines
        /\ again.directions = c.directions
        /\ again.isClosed = c.isClosed

\* a step that replaces the grid or changes a mirror flag
GridChanged ==
  \/ last'.action = "UPDATE_GRID"
  \/ grid'.rows # grid.rows
  \/ grid'.cols # grid.cols
  \/ MirrorFlags' # MirrorFlags

\* C27: under every interleaving of dispatches, import callbacks and
\* frames, every queued or playing curve the finder built is the walk of
\* the current grid with its current mirror flags, and a step that
\* replaces the grid or changes a mirror leaves no curve queued or playing
C27_NoStaleCurvePending ==
  /\ [](\A c \in PendingTraced : TracedOnCurrentGrid(c))
  /\ [][GridChanged => anim'.queue = << >> /\ anim'.currentCurve = Null]_vars

\* an import callback has queued curves of a grid with an interior mirror
\* after curves queued or playing earlier were dropped
C27_Witness ==
  /\ last.action = "then"
  /\ PendingTraced # {}
  /\ Len(anim.queue) > 0
  /\ dropped # {}
  /\ HasInteriorMirror

\* the (line, direction) pairs of the steps of a curve
StepPairs(c) == {<<c.gridLines[i], c.directions[i]>> : i \in 1..Len(c.gridLines)}

\* C28: the finder-built curves displayed in state.curves are pairwise
\* disjoint: no (line, direction) pair is a step of two of them, and so
\* no curve is displayed twice
C28_DisplayedDisjoint ==
  \A i, j \in 1..Len(state.curves) :
     (/\ i < j
      /\ "gridLines" \in DOMAIN state.curves[i]
      /\ "gridLines" \in DOMAIN state.curves[j])
     => StepPairs(state.curves[i]) \cap StepPairs(state.curves[j]) = {}

(* ---------- properties of buildCurve's closing test ---------- *)
\* entry i of the curve being built is the start line with the start
\* direction
AtStart(c, i) ==
  /\ c.gridLines[i] = c.gridLines[1]
  /\ c.directions[i] = c.directions[1]

\* C29: buildCurve sets isClosed and returns at the first appended step
\* that is the start line with the start direction, once the curve has
\* at least 3 entries; a step onto the start line with another direction
\* does not end the walk; nothing is appended after the closing step
C29_ClosesAtStartPairOnly ==
  /\ [](build.curve # Null =>
          LET c == build.curve
              n == Len(c.gridLines)
          IN /\ \A i \in 2..(n - 1) : ~(i >= 3 /\ AtStart(c, i))
             /\ c.isClosed <=> (n >= 3 /\ AtStart(c, n))
             /\ c.isClosed => build.ret = "true" /\ pc # "buildCurve"
             /\ (~c.isClosed /\ ~c.leftGrid) => build.ret = "running")
  /\ [][pc = "buildCurve" =>
          /\ build'.curve.gridLines =
               Append(build.curve.gridLines,
                      build'.curve.gridLines[Len(build'.curve.gridLines)])
          /\ ~build.curve.isClosed]_vars

\* a walk from a start that findNextCurve can choose has returned closed
\* after stepping onto its start line with a direction other than the
\* start direction
C29_Witness ==
  /\ build.curve # Null
  /\ WalkOfFinder
  /\ build.curve.isClosed
  /\ \E i \in 2..(Len(build.curve.gridLines) - 1) :
       /\ build.curve.gridLines[i] = build.curve.gridLines[1]
       /\ build.curve.directions[i] # build.curve.directions[1]

(* ---------- properties of findAllCurves ---------- *)
\* a grid constructed anew with the dimensions of the current grid and
\* given its mirror flags, nothing consumed but the pre-seeded directions
Rebuilt ==
  LET fresh == Grid(grid.rows, grid.cols)
  IN [fresh EXCEPT !.gridLines =
        [id \in DOMAIN fresh.gridLines |->
           [fresh.gridLines[id] EXCEPT
              !.isMirror = grid.gridLines[id].isMirror]]]

\* C30: whatever was consumed when findAllCurves was called, it returns
\* the list of curves (number, order, steps of each) that it returns on
\* a newly constructed grid of the same dimensions and mirror flags, and
\* a second call right after the first returns the same list
C30_FindAllCurvesDeterministic ==
  /\ [](LastCall("findAllCurves") => curves = findAllCurves(Rebuilt).curves)
  /\ [][(LastCall("findAllCurves") /\ last'.action = "findAllCurves")
          => curves' = curves]_vars

\* findAllCurves has returned several curves on a grid with an interior
\* mirror
C30_Witness ==
  /\ LastCall("findAllCurves")
  /\ HasInteriorMirror
  /\ Len(curves) >= 2

(* ---------- properties of completion and cancellation ---------- *)
\* the enqueue numbers of the curves displayed as completed
CompletedSeqs == {state.curves[i].seq : i \in 1..Len(state.curves)}

\* the positions of the events called name among the events the handler
\* that ran last has emitted
EmittedAt(emitted, name) ==
  {i \in 1..Len(emitted) : emitted[i].name = name}

\* the progress animationStep computes in the frame this step delivers
StepProgress ==
  IF anim.animationStartTime = 0
  THEN progressOf(0, anim.animationSpeed,
                  calculatePathLength(calculatePathPoints(anim.currentCurve),
                                      anim.currentCurve))
  ELSE progressOf(now' - anim.animationStartTime, anim.animationSpeed,
                  anim.currentPathLength)

\* the step is a frame of the curve in flight
FrameOfCurve ==
  /\ last'.action = "animationStep"
  /\ anim.isAnimating
  /\ anim.currentCurve # Null

\* the step is a frame in which the curve in flight reaches progress 1
ReachesProgressOne == FrameOfCurve /\ isComplete(StepProgress)

\* C31: a curve that reaches progress 1 is emitted as completed exactly
\* once, in that frame, with clearAnimationPath emitted right after it
\* (only the listener's REDRAW in between) and no updateAnimationPath
\* after it in that frame; a curve emits updateAnimationPath only when
\* every curve enqueued before it has been completed or cancelled; no
\* curve is displayed as completed twice and no cancelled curve ever is
C31_CompletedOnceThenCleared ==
  /\ [](/\ Cardinality(CompletedSeqs) = Len(state.curves)
        /\ CompletedSeqs \cap dropped = {})
  /\ [][LET e == last'.emitted
        IN /\ \A i \in EmittedAt(e, "addCompletedCurve") :
                /\ anim.isAnimating
                /\ anim.currentCurve # Null
                /\ e[i].payload.seq = anim.currentCurve.seq
                /\ i + 2 <= Len(e)
                /\ e[i + 1].name = "REDRAW"
                /\ e[i + 2].name = "clearAnimationPath"
                /\ \A j \in (i + 1)..Len(e) :
                     e[j].name \notin {"updateAnimationPath", "addCompletedCurve"}
                /\ state'.animationPath = Null
                /\ anim'.isAnimating => anim'.currentCurve.seq # e[i].payload.seq
           /\ \A i \in EmittedAt(e, "updateAnimationPath") :
                \A k \in 1..(e[i].payload.of - 1) :
                   k \in dropped \cup CompletedSeqs
           /\ ReachesProgressOne =>
                Cardinality(EmittedAt(e, "addCompletedCurve")) = 1]_vars

\* a frame has completed a curve and has started the next curve of the
\* queue, after an earlier curve was cancelled by cancelAnimation while
\* it was playing
C31_Witness ==
  /\ last.action = "animationStep"
  /\ EmittedAt(last.emitted, "addCompletedCurve") # {}
  /\ anim.isAnimating
  /\ dropped # {}
  /\ 1 \in dropped

\* C32: when cancelAnimation is called while a curve is playing, it
\* leaves the queue empty, no current curve and no partial polyline in
\* state.animationPath
C32_CancelAnimationDropsAll ==
  [][(/\ anim.isAnimating
      /\ anim.currentCurve # Null
      /\ last'.action = "cancelAnimation")
     => /\ anim'.queue = << >>
        /\ anim'.currentCurve = Null
        /\ state'.animationPath = Null]_vars

C34_ProgressNeverDecreases ==
  [][FrameOfCurve =>
       /\ StepProgress.den > 0
       /\ 0 <= StepProgress.num
       /\ StepProgress.num <= StepProgress.den
       /\ (/\ state.animationPath # Null
           /\ state'.animationPath # Null
           /\ state'.animationPath.of = state.animationPath.of)
          => Len(state'.animationPath.points) >= Len(state.animationPath.points)]_vars

\* C35: the neighbour relation is symmetric through the opposite direction:
\* on the grid, for every line e and direction d whose stored connection n
\* is not null, the connection of n in the direction opposite to d (NW with
\* SE, NE with SW, the oppositeDirection of buildCurve) is e, and n has the
\* other orientation than e; so the lines of a curve alternate between
\* horizontal and vertical
C35_NeighborsSymmetric ==
  /\ grid.rows >= 1 /\ grid.cols >= 1
  /\ \A e \in DOMAIN grid.gridLines, d \in Dirs :
       LET n == grid.gridLines[e].connections[d]
       IN n # Null =>
            /\ n \in DOMAIN grid.gridLines
            /\ grid.gridLines[n].connections[oppositeOf(d)] = e
            /\ grid.gridLines[n].type # grid.gridLines[e].type
            /\ grid.gridLines[n].type \in {"horizontal", "vertical"}
  /\ \A d \in Dirs : oppositeOf(d) # d /\ oppositeOf(oppositeOf(d)) = d
  /\ oppositeOf(NW) = SE /\ oppositeOf(NE) = SW
  /\ \A k \in 1..Len(curves) : \A i \in 1..(Len(curves[k].gridLines) - 1) :
       curves[k].gridLines[i][1] # curves[k].gridLines[i + 1][1]

\* a grid of at least two rows and two columns, where some line has all four
\* neighbours and some line lacks two, during a walk that has crossed from
\* a line to one of its neighbours
C35_Witness ==
  /\ grid.rows >= 2 /\ grid.cols >= 2
  /\ \E e \in DOMAIN grid.gridLines :
       \A d \in Dirs : grid.gridLines[e].connections[d] # Null
  /\ \E e \in DOMAIN grid.gridLines :
       \E d \in Dirs : grid.gridLines[e].connections[d] = Null
  /\ pc = "buildCurve"
  /\ Len(build.curve.gridLines) >= 2
  /\ \E d \in Dirs :
       grid.gridLines[build.curve.gridLines[1]].connections[d]
         = build.curve.gridLines[2]

====
